---- MODULE Spec2Model ----
(***************************************************************************)
(* Movie rating backend: the storage layer (ratings, reviews,              *)
(* user_activity), the request handlers of movieController and             *)
(* reviewController split at their awaits, and the read queries.           *)
(*                                                                         *)
(* Numbers: a rating is kept in tenths (85 is 8.5).  Strings that are      *)
(* searched or ordered are sequences of character codes.                   *)
(***************************************************************************)
EXTENDS Integers, Sequences, FiniteSets, TLC

(***************************************************************************)
(* Bounds of the model.                                                    *)
(***************************************************************************)
NUsers == 2
NMovies == 4
NSlots == 2
MaxReqs == 3

Users == 1..NUsers
Movies == 1..NMovies
\* movie ids a request can name: the catalogue and one id that is no movie
MovieParams == 1..(NMovies + 1)
Slots == 1..NSlots

\* rating values a request body can carry, in tenths: -0.1, 3.0, 8.5, 10.0, 10.1
RatingInputs == {-1, 30, 85, 100, 101}

(***************************************************************************)
(* Storage layer: the ratings table.                                       *)
(***************************************************************************)
VARIABLES
  ratings,      \* rows [rating_id, user_id, movie_id, rating]
  activity,     \* user_activity rows of type 'rate', counted per (user, movie)
  reviews,      \* rows [review_id, user_id, movie_id, title, content, is_spoiler]
  nextReviewId, \* the reviews table's auto-increment counter
  watchlists,   \* rows [watchlist_id, user_id, movie_id]
  users,        \* per user_id: the row's is_active, first_name, last_name, bio
  strictMode,   \* the SQL server rejects (TRUE) or clamps (FALSE) out-of-range decimals
  clients,      \* the request slots that are in use
  quota,        \* how many requests the clients send in all
  started,      \* requests started so far
  req,          \* per slot: the request being handled and its position
  out           \* the response of the last read request

vars == <<ratings, activity, reviews, nextReviewId, watchlists, users, strictMode, clients, quota, started, req, out>>

\* DECIMAL(2,1): two digits, one of them after the point
DecimalMax == 99

\* validate: { min: 0.0, max: 10.0 } of the Rating model, in tenths
ModelMin == 0
ModelMax == 100

MaxOf(S) == CHOOSE x \in S : \A y \in S : y <= x

\* autoIncrement primary key of ratings (rows are never deleted)
NewRatingId == IF ratings = {} THEN 1 ELSE MaxOf({row.rating_id : row \in ratings}) + 1

RatingRows(u, m) == {row \in ratings : row.user_id = u /\ row.movie_id = m}

\* Rating.findOne({where: {user_id, movie_id}}): the id of a matching row, 0 for null
FoundRatings(u, m) ==
  IF RatingRows(u, m) = {} THEN {0} ELSE {row.rating_id : row \in RatingRows(u, m)}

\* the model's validators, run by create and update before the statement is sent
ModelValid(v) == v >= ModelMin /\ v <= ModelMax

\* what a DECIMAL(2,1) column does with a value: "error" or the value stored
ColumnStores(v) ==
  IF v <= DecimalMax THEN v
  ELSE IF strictMode THEN -1 ELSE DecimalMax

\* the unique index on (user_id, movie_id)
UniqueIndexAllows(u, m) == RatingRows(u, m) = {}

(***************************************************************************)
(* Request slots.  A handler is split at its awaits: every step is one     *)
(* statement of the storage layer, and steps of different requests         *)
(* interleave.                                                             *)
(***************************************************************************)
\* no read response is held
NoOut == [op |-> "none"]

NoRes == [status |-> 0, message |-> "", data |-> 0]
\* sent counts the responses written for the request
Idle == [op |-> "none", pc |-> "idle", user |-> 0, arg |-> 0, found |-> 0, res |-> NoRes,
         sent |-> 0]

Res(status, message, data) == [status |-> status, message |-> message, data |-> data]

CanStart(r) ==
  /\ r \in clients
  /\ req[r].pc \in {"idle", "done"}
  /\ started < quota

Begin(r, op, u, arg, pc) ==
  /\ started' = started + 1
  /\ req' = [req EXCEPT ![r] =
       [op |-> op, pc |-> pc, user |-> u, arg |-> arg, found |-> 0, res |-> NoRes,
        sent |-> 0]]

\* res.status(..).json(..): the handler is over
Respond(r, res) ==
  req' = [req EXCEPT ![r].pc = "done", ![r].res = res, ![r].sent = @ + 1]

Goto(r, pc) == req' = [req EXCEPT ![r].pc = pc]

ServerError == Res(500, "Server error", 0)

(***************************************************************************)
(* rateMovie                                                               *)
(***************************************************************************)
\* the controller's range check, in tenths
RateMin == 0
RateMax == 100

\* a body without a rating: const { rating } = req.body is undefined
NoRating == 1000

\* the range test with its upper comparison left out
RatingRejected_NoUpper(v) == v < RateMin

\* rating < 0 || rating > 10; both comparisons are false for undefined
RatingRejected(v) == v # NoRating /\ (v < RateMin \/ v > RateMax)

\* the request arrives (req.user is set by the auth middleware); validation
\* runs before the first await
RateStart(r, u, m, v) ==
  /\ CanStart(r)
  /\ IF RatingRejected(v)
     THEN /\ started' = started + 1
          /\ req' = [req EXCEPT ![r] =
               [op |-> "rateMovie", pc |-> "done", user |-> u,
                arg |-> [movie |-> m, rating |-> v], found |-> 0,
                res |-> Res(400, "Rating must be between 0 and 10", 0), sent |-> 1]]
     ELSE Begin(r, "rateMovie", u, [movie |-> m, rating |-> v], "rate_findMovie")
  /\ UNCHANGED <<ratings, activity, reviews, nextReviewId, watchlists, users, strictMode, clients, quota>>
  /\ out' = NoOut

\* Movie.findByPk(id)
RateFindMovie(r) ==
  /\ req[r].pc = "rate_findMovie"
  /\ IF req[r].arg.movie \in Movies
     THEN Goto(r, "rate_findRating")
     ELSE Respond(r, Res(404, "Movie not found", 0))
  /\ UNCHANGED <<ratings, activity, reviews, nextReviewId, watchlists, users, strictMode, clients, quota, started, out>>

\* Rating.findOne({ where: { user_id, movie_id } })
RateFindRating(r) ==
  /\ req[r].pc = "rate_findRating"
  /\ \E f \in FoundRatings(req[r].user, req[r].arg.movie) :
       req' = [req EXCEPT ![r].pc = "rate_write", ![r].found = f]
  /\ UNCHANGED <<ratings, activity, reviews, nextReviewId, watchlists, users, strictMode, clients, quota, started, out>>

\* UPDATE ratings SET rating = v WHERE rating_id = id
UpdatedRatings(id, v) ==
  {IF row.rating_id = id THEN [row EXCEPT !.rating = v] ELSE row : row \in ratings}

\* INSERT INTO ratings (user_id, movie_id, rating)
InsertedRatings(u, m, v) ==
  ratings \cup {[rating_id |-> NewRatingId, user_id |-> u, movie_id |-> m, rating |-> v]}

\* existingRating.update({ rating }) or Rating.create({ user_id, movie_id, rating });
\* a rejected statement throws into the catch block.  Without a rating,
\* create fails on allowNull: false; update either leaves the undefined
\* value out and writes nothing, or fails on it in the same way
RateWrite(r) ==
  /\ req[r].pc = "rate_write"
  /\ LET u == req[r].user
         m == req[r].arg.movie
         v == req[r].arg.rating
         stored == ColumnStores(v)
     IN IF v = NoRating
        THEN /\ UNCHANGED ratings
             /\ \/ Respond(r, ServerError)
                \/ req[r].found # 0 /\ Goto(r, "rate_log")
        ELSE IF ~ModelValid(v) \/ stored = -1
        THEN /\ Respond(r, ServerError)
             /\ UNCHANGED ratings
        ELSE IF req[r].found # 0
        THEN /\ ratings' = UpdatedRatings(req[r].found, stored)
             /\ Goto(r, "rate_log")
        ELSE IF UniqueIndexAllows(u, m)
        THEN /\ ratings' = InsertedRatings(u, m, stored)
             /\ Goto(r, "rate_log")
        ELSE /\ Respond(r, ServerError)
             /\ UNCHANGED ratings
  /\ UNCHANGED <<activity, reviews, nextReviewId, watchlists, users, strictMode, clients, quota, started, out>>

\* the insert made twice
LoggedActivity_Twice(u, m) == [activity EXCEPT ![<<u, m>>] = @ + 2]

\* INSERT INTO user_activity (user_id, movie_id, activity_type) VALUES (?, ?, 'rate')
LoggedActivity(u, m) == [activity EXCEPT ![<<u, m>>] = @ + 1]

RateLog(r) ==
  /\ req[r].pc = "rate_log"
  /\ activity' = LoggedActivity(req[r].user, req[r].arg.movie)
  /\ Respond(r, Res(200, "Rating submitted successfully",
                    [user_id |-> req[r].user, movie_id |-> req[r].arg.movie,
                     rating |-> req[r].arg.rating]))
  /\ UNCHANGED <<ratings, reviews, nextReviewId, watchlists, users, strictMode, clients, quota, started, out>>

\* the INSERT INTO user_activity is rejected by the storage layer
RateLogFails(r) ==
  /\ req[r].pc = "rate_log"
  /\ Respond(r, ServerError)
  /\ UNCHANGED <<ratings, activity, reviews, nextReviewId, watchlists, users, strictMode, clients, quota, started, out>>

(***************************************************************************)
(* Reviews.  A body field that is absent is Undefined; a column that holds *)
(* no value is Null.                                                       *)
(***************************************************************************)
Undefined == "<undefined>"
Null == "<null>"

ReviewRows(u, m) == {row \in reviews : row.user_id = u /\ row.movie_id = m}

\* the lookup matching on a review of another movie only
FoundReviews_WrongMovie(u, m) ==
  IF ReviewRows(u, m + 1) = {} THEN {0} ELSE {row.review_id : row \in ReviewRows(u, m + 1)}

\* Review.findOne({ where: { user_id, movie_id } }): the id of a matching row, 0 for null
FoundReviews(u, m) ==
  IF ReviewRows(u, m) = {} THEN {0} ELSE {row.review_id : row \in ReviewRows(u, m)}

\* Review.findByPk(id): the row in a set, or the empty set
ReviewByPk(id) == {row \in reviews : row.review_id = id}

\* content: allowNull: false, validate: { notEmpty: true, len: [1, 5000] }
ContentValid(content) == content \notin {Undefined, Null, ""}

\* is_spoiler: is_spoiler || false
SpoilerOrFalse(sp) == IF sp \in {Undefined, "false"} THEN "false" ELSE sp

\* a body field left out is stored as NULL
OrNull(x) == IF x = Undefined THEN Null ELSE x

CreateStart(r, u, m, title, content, sp) ==
  /\ CanStart(r)
  /\ Begin(r, "createReview", u,
           [movie |-> m, title |-> title, content |-> content, is_spoiler |-> sp],
           "cr_findMovie")
  /\ UNCHANGED <<ratings, activity, reviews, nextReviewId, watchlists, users, strictMode, clients, quota>>
  /\ out' = NoOut

\* Movie.findByPk(movie_id)
CreateFindMovie(r) ==
  /\ req[r].pc = "cr_findMovie"
  /\ IF req[r].arg.movie \in Movies
     THEN Goto(r, "cr_findReview")
     ELSE Respond(r, Res(404, "Movie not found", 0))
  /\ UNCHANGED <<ratings, activity, reviews, nextReviewId, watchlists, users, strictMode, clients, quota, started, out>>

\* Review.findOne: an existing review ends the request with 400
CreateFindReview(r) ==
  /\ req[r].pc = "cr_findReview"
  /\ \E f \in FoundReviews(req[r].user, req[r].arg.movie) :
       IF f # 0
       THEN Respond(r, Res(400, "You have already reviewed this movie", 0))
       ELSE Goto(r, "cr_create")
  /\ UNCHANGED <<ratings, activity, reviews, nextReviewId, watchlists, users, strictMode, clients, quota, started, out>>

\* Review.create: the reviews table has no unique index on (user_id, movie_id)
CreateInsert(r) ==
  /\ req[r].pc = "cr_create"
  /\ IF ContentValid(req[r].arg.content)
     THEN /\ reviews' = reviews \cup
               {[review_id |-> nextReviewId, user_id |-> req[r].user,
                 movie_id |-> req[r].arg.movie, title |-> OrNull(req[r].arg.title),
                 content |-> req[r].arg.content,
                 is_spoiler |-> SpoilerOrFalse(req[r].arg.is_spoiler)]}
          /\ nextReviewId' = nextReviewId + 1
          /\ req' = [req EXCEPT ![r].pc = "cr_fetch", ![r].found = nextReviewId]
     ELSE /\ Respond(r, ServerError)
          /\ UNCHANGED <<reviews, nextReviewId>>
  /\ UNCHANGED <<ratings, activity, watchlists, users, strictMode, clients, quota, started, out>>

\* Review.findByPk(review.review_id, { include }) and the 201 response
CreateFetch(r) ==
  /\ req[r].pc = "cr_fetch"
  /\ Respond(r, Res(201, "Review created successfully", ReviewByPk(req[r].found)))
  /\ UNCHANGED <<ratings, activity, reviews, nextReviewId, watchlists, users, strictMode, clients, quota, started, out>>

UpdateStart(r, u, id, title, content, sp) ==
  /\ CanStart(r)
  /\ Begin(r, "updateReview", u,
           [id |-> id, title |-> title, content |-> content, is_spoiler |-> sp],
           "ur_find")
  /\ UNCHANGED <<ratings, activity, reviews, nextReviewId, watchlists, users, strictMode, clients, quota>>
  /\ out' = NoOut

\* title: title || review.title, content: content || review.content,
\* is_spoiler: is_spoiler !== undefined ? is_spoiler : review.is_spoiler
Falsy(x) == x \in {Undefined, Null, "", "false"}
UpdateValues(arg, row) ==
  [title |-> IF Falsy(arg.title) THEN row.title ELSE arg.title,
   content |-> IF Falsy(arg.content) THEN row.content ELSE arg.content,
   is_spoiler |-> IF arg.is_spoiler # Undefined THEN arg.is_spoiler ELSE row.is_spoiler]

\* the ownership test left out
OwnedBy_Anyone(row, u) == TRUE

\* review.user_id !== req.user.user_id is false
OwnedBy(row, u) == row.user_id = u

\* Review.findByPk(id), the ownership check, and the values update() will write
UpdateFind(r) ==
  /\ req[r].pc = "ur_find"
  /\ IF ReviewByPk(req[r].arg.id) = {}
     THEN Respond(r, Res(404, "Review not found", 0))
     ELSE LET row == CHOOSE x \in ReviewByPk(req[r].arg.id) : TRUE IN
          IF ~OwnedBy(row, req[r].user)
          THEN Respond(r, Res(403, "Not authorized to update this review", 0))
          ELSE req' = [req EXCEPT ![r].pc = "ur_update",
                                  ![r].found = UpdateValues(req[r].arg, row)]
  /\ UNCHANGED <<ratings, activity, reviews, nextReviewId, watchlists, users, strictMode, clients, quota, started, out>>

\* UPDATE reviews SET ... WHERE review_id = id (no row is no error)
UpdatedReviews(id, vals) ==
  {IF row.review_id = id
   THEN [row EXCEPT !.title = vals.title, !.content = vals.content,
                    !.is_spoiler = vals.is_spoiler]
   ELSE row : row \in reviews}

UpdateWrite(r) ==
  /\ req[r].pc = "ur_update"
  /\ reviews' = UpdatedReviews(req[r].arg.id, req[r].found)
  /\ Goto(r, "ur_fetch")
  /\ UNCHANGED <<ratings, activity, nextReviewId, watchlists, users, strictMode, clients, quota, started, out>>

UpdateFetch(r) ==
  /\ req[r].pc = "ur_fetch"
  /\ Respond(r, Res(200, "Review updated successfully", ReviewByPk(req[r].arg.id)))
  /\ UNCHANGED <<ratings, activity, reviews, nextReviewId, watchlists, users, strictMode, clients, quota, started, out>>

DeleteStart(r, u, id) ==
  /\ CanStart(r)
  /\ Begin(r, "deleteReview", u, [id |-> id], "dr_find")
  /\ UNCHANGED <<ratings, activity, reviews, nextReviewId, watchlists, users, strictMode, clients, quota>>
  /\ out' = NoOut

DeleteFind(r) ==
  /\ req[r].pc = "dr_find"
  /\ IF ReviewByPk(req[r].arg.id) = {}
     THEN Respond(r, Res(404, "Review not found", 0))
     ELSE LET row == CHOOSE x \in ReviewByPk(req[r].arg.id) : TRUE IN
          IF ~OwnedBy(row, req[r].user)
          THEN Respond(r, Res(403, "Not authorized to delete this review", 0))
          ELSE Goto(r, "dr_destroy")
  /\ UNCHANGED <<ratings, activity, reviews, nextReviewId, watchlists, users, strictMode, clients, quota, started, out>>

\* review.destroy(): DELETE FROM reviews WHERE review_id = id
DeleteDestroy(r) ==
  /\ req[r].pc = "dr_destroy"
  /\ reviews' = {row \in reviews : row.review_id # req[r].arg.id}
  /\ Respond(r, Res(200, "Review deleted successfully", 0))
  /\ UNCHANGED <<ratings, activity, nextReviewId, watchlists, users, strictMode, clients, quota, started, out>>

(***************************************************************************)
(* The catalogue: movies, genres and movie_genres.  No handler writes      *)
(* them.  Movie 1 "Up" (2001-05-15; War, Art), movie 2 "up" (no release    *)
(* date; War, Art, Noir), movie 3 "Heat" (1999-01-01; no genre; overview   *)
(* "cop"), any further movie "Pi" (2001-01-01; Noir).                      *)
(***************************************************************************)
Genres == {1, 2, 3}

GenreName(g) ==
  CASE g = 1 -> <<87, 97, 114>>
    [] g = 2 -> <<65, 114, 116>>
    [] OTHER -> <<78, 111, 105, 114>>

GenresOf(m) ==
  CASE m = 1 -> {1, 2}
    [] m = 2 -> {1, 2, 3}
    [] m = 3 -> {}
    [] OTHER -> {3}

Title(m) ==
  CASE m = 1 -> <<85, 112>>
    [] m = 2 -> <<117, 112>>
    [] m = 3 -> <<72, 101, 97, 116>>
    [] OTHER -> <<80, 105>>

Overview(m) == IF m = 3 THEN <<99, 111, 112>> ELSE <<>>

\* release_date as yyyymmdd; 0 is NULL, which sorts before every date
ReleaseDate(m) ==
  CASE m = 1 -> 20010515
    [] m = 2 -> 0
    [] m = 3 -> 19990101
    [] OTHER -> 20010101

(***************************************************************************)
(* String comparison of the storage layer: case-insensitive.               *)
(***************************************************************************)
Fold(c) == IF c >= 65 /\ c <= 90 THEN c + 32 ELSE c
KeyOf(str) == [i \in 1..Len(str) |-> Fold(str[i])]

\* column LIKE '%needle%'
Like(hay, needle) ==
  \E i \in 0..(Len(hay) - Len(needle)) :
    SubSeq(KeyOf(hay), i + 1, i + Len(needle)) = KeyOf(needle)

LexLess(a, b) ==
  \E i \in 1..Len(b) :
    /\ i <= Len(a) + 1
    /\ \A j \in 1..(i - 1) : a[j] = b[j]
    /\ (i = Len(a) + 1 \/ a[i] < b[i])

(***************************************************************************)
(* Aggregates over the ratings of a movie.  A rating is held in tenths; an *)
(* average is a DECIMAL with five digits after the point, held in units of *)
(* 0.00001: AvgScale units make a tenth.                                   *)
(***************************************************************************)
AvgScale == 10000

RatingsOf(m) == {row \in ratings : row.movie_id = m}

RECURSIVE SumRatings(_)
SumRatings(rows) ==
  IF rows = {} THEN 0
  ELSE LET row == CHOOSE x \in rows : TRUE IN row.rating + SumRatings(rows \ {row})

\* SELECT COUNT(*) FROM ratings WHERE ratings.movie_id = Movie.movie_id
RatingCount(m) == Cardinality(RatingsOf(m))

\* the quotient rounded to the scale of the result
RoundDiv(a, b) == (2 * a + b) \div (2 * b)

\* SELECT COALESCE(AVG(rating), 0) FROM ratings WHERE ratings.movie_id = Movie.movie_id
AvgRating(m) ==
  IF RatingsOf(m) = {} THEN 0
  ELSE RoundDiv(SumRatings(RatingsOf(m)) * AvgScale, RatingCount(m))

\* the values k + 0.5 tenths (0.05, 0.25, ...) whose nearest double is not below
\* them: toFixed(1) rounds exactly these halves up
HalvesUp ==
  {0, 2, 4, 5, 6, 7, 10, 12, 13, 15, 17, 18, 22, 23, 24, 27, 28, 29, 32, 33, 34, 37,
   38, 39, 41, 42, 44, 46, 47, 49, 51, 52, 54, 56, 57, 59, 61, 62, 64, 66, 67, 69,
   71, 72, 74, 76, 77, 79, 80, 81, 82, 85, 86, 87, 90, 91, 92, 95, 96, 97}

\* parseFloat(avgRating).toFixed(1): the nearest value with one decimal
ToFixed1(avg) ==
  LET q == avg \div AvgScale
      rem == avg % AvgScale
      up == 2 * rem > AvgScale \/ (2 * rem = AvgScale /\ q \in HalvesUp)
  IN (IF up THEN q + 1 ELSE q) * AvgScale

(***************************************************************************)
(* Ordered, paginated selection.  A row is a movie joined to one of its    *)
(* genres (genre 0: no genre joined); mult is the number of genre rows a   *)
(* GROUP BY folded into it, each of which repeats the movie's ratings.     *)
(* Rows that the ORDER BY leaves tied come in an order the storage layer   *)
(* chooses: by primary key, by primary key backwards, or by genre first.   *)
(***************************************************************************)
TieBreaks == {"pk", "rev", "genre"}

Row(m, g, mult) == [movie |-> m, genre |-> g, mult |-> mult]

TieBefore(x, y, tb) ==
  CASE tb = "pk" -> x.movie < y.movie \/ (x.movie = y.movie /\ x.genre < y.genre)
    [] tb = "rev" -> x.movie > y.movie \/ (x.movie = y.movie /\ x.genre > y.genre)
    [] OTHER -> x.genre < y.genre \/ (x.genre = y.genre /\ x.movie < y.movie)

\* ORDER BY title: the titles compared without regard to case
TitleLess == [m1 \in Movies, m2 \in Movies |-> LexLess(KeyOf(Title(m1)), KeyOf(Title(m2)))]

\* row x sorts before row y on a column, ascending
ColLess(col, x, y) ==
  CASE col = "title" -> TitleLess[x.movie, y.movie]
    [] col = "release_date" -> ReleaseDate(x.movie) < ReleaseDate(y.movie)
    [] col = "avgRating" -> AvgRating(x.movie) < AvgRating(y.movie)
    [] OTHER -> RatingCount(x.movie) * x.mult < RatingCount(y.movie) * y.mult

RECURSIVE OrderBefore(_, _, _, _)
OrderBefore(x, y, ord, tb) ==
  IF ord = <<>> THEN TieBefore(x, y, tb)
  ELSE LET lt == ColLess(Head(ord).col, x, y)
           gt == ColLess(Head(ord).col, y, x)
       IN IF Head(ord).dir = "ASC"
          THEN lt \/ (~gt /\ OrderBefore(x, y, Tail(ord), tb))
          ELSE gt \/ (~lt /\ OrderBefore(x, y, Tail(ord), tb))

\* the rows in ORDER BY order
RECURSIVE SortRows(_, _, _)
SortRows(rows, ord, tb) ==
  IF rows = {} THEN <<>>
  ELSE LET first == CHOOSE x \in rows : \A y \in rows \ {x} : OrderBefore(x, y, ord, tb)
       IN <<first>> \o SortRows(rows \ {first}, ord, tb)

MinOf(a, b) == IF a < b THEN a ELSE b

\* the selection without its LIMIT
Slice_NoLimit(rows, offset, limit) == SubSeq(rows, offset + 1, Len(rows))

\* LIMIT limit OFFSET offset
Slice(rows, offset, limit) == SubSeq(rows, offset + 1, MinOf(offset + limit, Len(rows)))

\* a movie of a response, with its avgRating and ratingCount attributes:
\* AVG(rating) and COUNT(rating) over the ratings joined to the row
Entry(row) ==
  [id |-> row.movie, avgRating |-> AvgRating(row.movie),
   ratingCount |-> RatingCount(row.movie) * row.mult]

\* the movies of a row sequence, each once, in the order of their first row
RECURSIVE MoviesOf(_)
MoviesOf(rows) ==
  IF rows = <<>> THEN <<>>
  ELSE LET front == MoviesOf(SubSeq(rows, 1, Len(rows) - 1))
           last == rows[Len(rows)]
       IN IF \E i \in 1..Len(front) : front[i].id = last.movie THEN front
          ELSE Append(front, Entry(last))

\* the formatting with parseInt in the place of parseFloat
Fixed_ParseInt(movie) ==
  [movie EXCEPT !.avgRating = (@ \div (10 * AvgScale)) * (10 * AvgScale)]

\* avgRating: parseFloat(movie.avgRating).toFixed(1)
Fixed(movie) == [movie EXCEPT !.avgRating = ToFixed1(@)]

\* Math.ceil(total / limit)
CeilDiv(a, b) == (a + b - 1) \div b

(***************************************************************************)
(* getMovies.  Its include names the Genre model without an alias: it      *)
(* resolves through Movie.belongsToMany(Genre, {through: MovieGenre}) of   *)
(* the associations module, which is taken to be loaded.                   *)
(***************************************************************************)
DefaultPage == 1
DefaultLimit == 8

\* parseInt(req.query.page) || 1 and parseInt(req.query.limit) || 8, 0 for a
\* parameter that is absent
PageOf(p) == IF p = 0 THEN DefaultPage ELSE p
LimitOf(l) == IF l = 0 THEN DefaultLimit ELSE l

\* the switch with 'rating-desc' ordering upwards
OrderClause_RatingUp(sort) ==
  CASE sort = "title-asc" -> <<[col |-> "title", dir |-> "ASC"]>>
    [] sort = "title-desc" -> <<[col |-> "title", dir |-> "DESC"]>>
    [] sort = "year-asc" -> <<[col |-> "release_date", dir |-> "ASC"]>>
    [] sort = "year-desc" -> <<[col |-> "release_date", dir |-> "DESC"]>>
    [] sort = "rating-asc" -> <<[col |-> "avgRating", dir |-> "ASC"]>>
    [] sort = "rating-desc" -> <<[col |-> "avgRating", dir |-> "ASC"]>>
    [] OTHER -> <<[col |-> "title", dir |-> "ASC"]>>

\* the switch with a default branch that orders by release date
OrderClause_DefaultYear(sort) ==
  CASE sort = "title-asc" -> <<[col |-> "title", dir |-> "ASC"]>>
    [] sort = "title-desc" -> <<[col |-> "title", dir |-> "DESC"]>>
    [] sort = "year-asc" -> <<[col |-> "release_date", dir |-> "ASC"]>>
    [] sort = "year-desc" -> <<[col |-> "release_date", dir |-> "DESC"]>>
    [] sort = "rating-asc" -> <<[col |-> "avgRating", dir |-> "ASC"]>>
    [] sort = "rating-desc" -> <<[col |-> "avgRating", dir |-> "DESC"]>>
    [] OTHER -> <<[col |-> "release_date", dir |-> "DESC"]>>

\* the switch on sort
OrderClause(sort) ==
  CASE sort = "title-asc" -> <<[col |-> "title", dir |-> "ASC"]>>
    [] sort = "title-desc" -> <<[col |-> "title", dir |-> "DESC"]>>
    [] sort = "year-asc" -> <<[col |-> "release_date", dir |-> "ASC"]>>
    [] sort = "year-desc" -> <<[col |-> "release_date", dir |-> "DESC"]>>
    [] sort = "rating-asc" -> <<[col |-> "avgRating", dir |-> "ASC"]>>
    [] sort = "rating-desc" -> <<[col |-> "avgRating", dir |-> "DESC"]>>
    [] OTHER -> <<[col |-> "title", dir |-> "ASC"]>>

\* req.query.sort || 'title-asc'
SortOrDefault(sort) == IF sort = Undefined THEN "title-asc" ELSE sort

\* release_date BETWEEN 'year-01-01' AND 'year-12-31'
InYear(date, year) == date >= year * 10000 + 101 /\ date <= year * 10000 + 1231

\* whereClause: an absent filter is <<>> (search) or 0 (year)
WhereMatches(m, q) ==
  /\ (q.search # <<>> => Like(Title(m), q.search))
  /\ (q.year # 0 => InYear(ReleaseDate(m), q.year))

\* the genres the include joins to a movie: those whose name is like the filter
JoinedGenres(m, q) ==
  {g \in GenresOf(m) : q.genre = <<>> \/ Like(GenreName(g), q.genre)}

\* movies joined to their genres (subQuery: false): an inner join when the
\* include has a where, a left join (genre 0 for no genre) when it has none
ListRows(q) ==
  UNION {IF JoinedGenres(m, q) = {} /\ q.genre = <<>>
         THEN {Row(m, 0, 1)}
         ELSE {Row(m, g, 1) : g \in JoinedGenres(m, q)}
         : m \in {x \in Movies : WhereMatches(x, q)}}

\* the count statement of findAndCountAll counts the joined rows, or the movies
\* when the ORM leaves the join out of it
ListCounts(q) ==
  {Cardinality(ListRows(q)), Cardinality({row.movie : row \in ListRows(q)})}

\* minRating is -1 when absent; (parseFloat(avgRating) || 0) >= parseFloat(minRating)
NoMin == -1
\* the filter with its comparison turned round
PassesMin_Below(movie, min) == movie.avgRating <= min * AvgScale

PassesMin(movie, min) == movie.avgRating >= min * AvgScale

ListPage(q, tb) ==
  LET limit == LimitOf(q.limit)
      offset == (PageOf(q.page) - 1) * limit
  IN MoviesOf(Slice(SortRows(ListRows(q), OrderClause(SortOrDefault(q.sort)), tb), offset, limit))

GetMoviesResponse(q, tb, count) ==
  LET rows == ListPage(q, tb)
      filtered == IF q.minRating # NoMin
                  THEN SelectSeq(rows, LAMBDA movie : PassesMin(movie, q.minRating))
                  ELSE rows
      total == IF q.minRating # NoMin THEN Len(filtered) ELSE count
  IN [op |-> "getMovies", q |-> q, status |-> 200, movies |-> filtered,
      pagination |-> [page |-> PageOf(q.page), limit |-> LimitOf(q.limit),
                      total |-> total, pages |-> CeilDiv(total, LimitOf(q.limit))]]

\* a handler whose one statement is a query: it runs and responds in one step.
\* Reads are not sent back to back: a client that holds a response sends a
\* write before it reads again.
Read(r, response) ==
  /\ CanStart(r)
  /\ out = NoOut
  /\ started' = started + 1
  /\ req' = [req EXCEPT ![r] = [Idle EXCEPT !.op = response.op, !.pc = "done", !.sent = 1]]
  /\ out' = response
  /\ UNCHANGED <<ratings, activity, reviews, nextReviewId, watchlists, users, strictMode, clients, quota>>

GetMovies(r, q) ==
  \E tb \in TieBreaks, count \in ListCounts(q) : Read(r, GetMoviesResponse(q, tb, count))

(***************************************************************************)
(* getMovieById                                                            *)
(***************************************************************************)
FixedAll(movies) == [i \in 1..Len(movies) |-> Fixed(movies[i])]

\* user 0: the request carries no valid token, req.user is not set
GetByIdStart(r, u, id) ==
  /\ CanStart(r)
  /\ out = NoOut
  /\ Begin(r, "getMovieById", u, id, "gb_findMovie")
  /\ out' = NoOut
  /\ UNCHANGED <<ratings, activity, reviews, nextReviewId, watchlists, users, strictMode, clients, quota>>

ByIdResponse(r, movie, userRating, isInWatchlist) ==
  [op |-> "getMovieById", q |-> [id |-> req[r].arg, user |-> req[r].user], status |-> 200,
   movies |-> <<Fixed(movie)>>, userRating |-> userRating, isInWatchlist |-> isInWatchlist]

\* Movie.findByPk with the two subqueries; 404 for no movie; the response when
\* nobody is logged in
GetByIdFindMovie(r) ==
  /\ req[r].pc = "gb_findMovie"
  /\ IF req[r].arg \notin Movies
     THEN /\ Respond(r, Res(404, "Movie not found", 0))
          /\ out' = [op |-> "getMovieById", q |-> [id |-> req[r].arg, user |-> req[r].user],
                     status |-> 404]
     ELSE IF req[r].user = 0
     THEN /\ Respond(r, Res(200, "", 0))
          /\ out' = ByIdResponse(r, Entry(Row(req[r].arg, 0, 1)), Null, FALSE)
     ELSE /\ req' = [req EXCEPT ![r].pc = "gb_findRating",
                                ![r].found = [movie |-> Entry(Row(req[r].arg, 0, 1))]]
          /\ UNCHANGED out
  /\ UNCHANGED <<ratings, activity, reviews, nextReviewId, watchlists, users, strictMode, clients, quota, started>>

\* Rating.findOne of the user and the movie
GetByIdFindRating(r) ==
  /\ req[r].pc = "gb_findRating"
  /\ \E id \in FoundRatings(req[r].user, req[r].arg) :
       req' = [req EXCEPT ![r].pc = "gb_findWatchlist",
                          ![r].found = [movie |-> req[r].found.movie,
                                        userRating |->
                                          IF id = 0 THEN Null
                                          ELSE (CHOOSE row \in ratings : row.rating_id = id).rating]]
  /\ UNCHANGED <<ratings, activity, reviews, nextReviewId, watchlists, users, strictMode, clients, quota, started, out>>

\* Watchlist.findOne of the user and the movie, and the response
GetByIdFindWatchlist(r) ==
  /\ req[r].pc = "gb_findWatchlist"
  /\ Respond(r, Res(200, "", 0))
  /\ out' = ByIdResponse(r, req[r].found.movie, req[r].found.userRating,
                         \E w \in watchlists : w.user_id = req[r].user /\ w.movie_id = req[r].arg)
  /\ UNCHANGED <<ratings, activity, reviews, nextReviewId, watchlists, users, strictMode, clients, quota, started>>

(***************************************************************************)
(* getTopRatedMovies                                                       *)
(***************************************************************************)
DefaultTopLimit == 10

\* parseInt(req.query.limit) || 10
TopLimitOf(l) == IF l = 0 THEN DefaultTopLimit ELSE l

\* ORDER BY avgRating DESC, ratingCount DESC
RatedOrder == <<[col |-> "avgRating", dir |-> "DESC"], [col |-> "ratingCount", dir |-> "DESC"]>>

\* the grouping without its HAVING
TopRatedRows_NoHaving == {Row(m, 0, 1) : m \in Movies}

\* movies LEFT JOIN ratings GROUP BY movie_id HAVING ratingCount >= 1
TopRatedRows == {Row(m, 0, 1) : m \in {x \in Movies : RatingCount(x) >= 1}}

TopRatedMovies(l, tb) ==
  FixedAll(MoviesOf(Slice(SortRows(TopRatedRows, RatedOrder, tb), 0, TopLimitOf(l))))

GetTopRatedMovies(r, l) ==
  \E tb \in TieBreaks :
    Read(r, [op |-> "getTopRatedMovies", q |-> [limit |-> l], status |-> 200,
             movies |-> TopRatedMovies(l, tb)])

(***************************************************************************)
(* getNewReleases                                                          *)
(***************************************************************************)
\* the switch on sort of getNewReleases
ReleaseOrderClause(sort) ==
  CASE sort = "year-asc" -> <<[col |-> "release_date", dir |-> "ASC"]>>
    [] sort = "year-desc" -> <<[col |-> "release_date", dir |-> "DESC"]>>
    [] sort = "title-asc" -> <<[col |-> "title", dir |-> "ASC"]>>
    [] sort = "title-desc" -> <<[col |-> "title", dir |-> "DESC"]>>
    [] sort = "rating-asc" -> <<[col |-> "avgRating", dir |-> "ASC"]>>
    [] sort = "rating-desc" -> <<[col |-> "avgRating", dir |-> "DESC"]>>
    [] OTHER -> <<[col |-> "release_date", dir |-> "DESC"]>>

\* req.query.sort || 'year-desc'
SortOrYearDesc(sort) == IF sort = Undefined THEN "year-desc" ELSE sort

\* where release_date is not null
ReleaseRows == {Row(m, 0, 1) : m \in {x \in Movies : ReleaseDate(x) # 0}}

Pagination(page, limit, total) ==
  [page |-> page, limit |-> limit, total |-> total, pages |-> CeilDiv(total, limit)]

NewReleasesResponse(q, tb) ==
  LET limit == LimitOf(q.limit)
      offset == (PageOf(q.page) - 1) * limit
      rows == SortRows(ReleaseRows, ReleaseOrderClause(SortOrYearDesc(q.sort)), tb)
  IN [op |-> "getNewReleases", q |-> q, status |-> 200,
      movies |-> FixedAll(MoviesOf(Slice(rows, offset, limit))),
      pagination |-> Pagination(PageOf(q.page), limit, Cardinality(ReleaseRows))]

GetNewReleases(r, q) == \E tb \in TieBreaks : Read(r, NewReleasesResponse(q, tb))

(***************************************************************************)
(* getMoviesByGenre                                                        *)
(***************************************************************************)
\* the comparison of getMovies' genre filter, a LIKE
NameEquals_Like(a, b) == Like(a, b)

\* g.name = ?, g.name IN (...): equality under the collation
NameEquals(a, b) == KeyOf(a) = KeyOf(b)

\* the movie_genres rows of a movie whose genre has one of the names
MatchingGenres(m, names) ==
  {g \in GenresOf(m) : \E name \in names : NameEquals(GenreName(g), name)}

\* movies JOIN movie_genres JOIN genres LEFT JOIN ratings WHERE g.name = ?
\* GROUP BY m.movie_id
GenreRows(names) ==
  {Row(m, 0, Cardinality(MatchingGenres(m, names))) :
     m \in {x \in Movies : MatchingGenres(x, names) # {}}}

\* SELECT COUNT(*) of the same join without the ratings
GenreCount(names) ==
  Cardinality(UNION {{<<m, g>> : g \in MatchingGenres(m, names)} : m \in Movies})

TitleOrder == <<[col |-> "title", dir |-> "ASC"]>>

\* the count statement follows the select; neither reads a table that a
\* handler writes between the two
ByGenreResponse(q, tb) ==
  LET limit == LimitOf(q.limit)
      offset == (PageOf(q.page) - 1) * limit
      rows == SortRows(GenreRows({q.genre}), TitleOrder, tb)
  IN [op |-> "getMoviesByGenre", q |-> q, status |-> 200,
      movies |-> FixedAll(MoviesOf(Slice(rows, offset, limit))),
      pagination |-> Pagination(PageOf(q.page), limit, GenreCount({q.genre}))]

GetMoviesByGenre(r, q) == \E tb \in TieBreaks : Read(r, ByGenreResponse(q, tb))

(***************************************************************************)
(* searchMovies, with the page and limit left out of the request           *)
(***************************************************************************)
\* title LIKE '%q%' OR overview LIKE '%q%'
SearchRows(query) ==
  {Row(m, 0, 1) : m \in {x \in Movies : Like(Title(x), query) \/ Like(Overview(x), query)}}

\* the handler without its test of the query: LIKE '%%' matches every movie
SearchResponse_NoCheck(query, tb) ==
  [op |-> "searchMovies", q |-> query, status |-> 200,
   movies |-> FixedAll(MoviesOf(Slice(SortRows(SearchRows(query), TitleOrder, tb),
                                     0, DefaultLimit))),
   pagination |-> Pagination(DefaultPage, DefaultLimit, Cardinality(SearchRows(query)))]

\* !query is true for a q that is missing or empty
SearchResponse(query, tb) ==
  IF query = <<>>
  THEN [op |-> "searchMovies", q |-> query, status |-> 400,
        message |-> "Search query is required"]
  ELSE [op |-> "searchMovies", q |-> query, status |-> 200,
        movies |-> FixedAll(MoviesOf(Slice(SortRows(SearchRows(query), TitleOrder, tb),
                                          0, DefaultLimit))),
        pagination |-> Pagination(DefaultPage, DefaultLimit, Cardinality(SearchRows(query)))]

SearchMovies(r, query) == \E tb \in TieBreaks : Read(r, SearchResponse(query, tb))

(***************************************************************************)
(* getRecommendations                                                      *)
(***************************************************************************)
\* WHERE rating >= 4, in tenths
HighRating == 40
HighLimit == 10
GenreLimit == 3

\* the first n members of S under ORDER BY key DESC LIMIT n, ties in any order
TopBy(S, key, n) ==
  {T \in SUBSET S :
     /\ Cardinality(T) = MinOf(n, Cardinality(S))
     /\ \A x \in T, y \in S \ T : key[x] >= key[y]}

RecStart(r, u, l) ==
  /\ CanStart(r)
  /\ out = NoOut
  /\ Begin(r, "getRecommendations", u, l, "rec_findRated")
  /\ out' = NoOut
  /\ UNCHANGED <<ratings, activity, reviews, nextReviewId, watchlists, users, strictMode, clients, quota>>

\* the ratings of every value, the WHERE without its rating >= 4
HighlyRated_Any(u) == {row \in ratings : row.user_id = u}

\* WHERE user_id = ? AND rating >= 4
HighlyRated(u) == {row \in ratings : row.user_id = u /\ row.rating >= HighRating}

\* the user's ratings of 4 and more, the ten highest
RecFindRated(r) ==
  /\ req[r].pc = "rec_findRated"
  /\ \E T \in TopBy(HighlyRated(req[r].user), [row \in ratings |-> row.rating], HighLimit) :
       IF T = {}
       THEN Goto(r, "rec_topRated")
       ELSE req' = [req EXCEPT ![r].pc = "rec_findGenres",
                               ![r].found = {row.movie_id : row \in T}]
  /\ UNCHANGED <<ratings, activity, reviews, nextReviewId, watchlists, users, strictMode, clients, quota, started, out>>

\* the test left out
NoGenres_Unchecked(G) == FALSE

\* genreNames.length === 0
NoGenres(G) == G = {}

\* the genres of these movies, the three that most of them have
RecFindGenres(r) ==
  /\ req[r].pc = "rec_findGenres"
  /\ LET count == [g \in Genres |-> Cardinality({m \in req[r].found : g \in GenresOf(m)})]
     IN \E G \in TopBy({g \in Genres : count[g] > 0}, count, GenreLimit) :
          IF NoGenres(G)
          THEN Goto(r, "rec_topRated")
          ELSE req' = [req EXCEPT ![r].pc = "rec_query",
                                  ![r].found = {GenreName(g) : g \in G}]
  /\ UNCHANGED <<ratings, activity, reviews, nextReviewId, watchlists, users, strictMode, clients, quota, started, out>>

\* the selection that leaves out only the movies the user rated 4 or more
RecommendedRows_HighOnly(u, names) ==
  {row \in GenreRows(names) : \A x \in RatingRows(u, row.movie) : x.rating < HighRating}

\* the selection without its WHERE g.name IN (...)
RecommendedRows_AllGenres(u, names) ==
  {row \in GenreRows({GenreName(g) : g \in Genres}) : RatingRows(u, row.movie) = {}}

\* the movies of these genres that the user has not rated: every genre row of
\* a movie is joined to every rating of it before the GROUP BY
RecommendedRows(u, names) ==
  {row \in GenreRows(names) : RatingRows(u, row.movie) = {}}

RecQuery(r) ==
  /\ req[r].pc = "rec_query"
  /\ Respond(r, Res(200, "", 0))
  /\ \E tb \in TieBreaks :
       out' = [op |-> "getRecommendations", q |-> [user |-> req[r].user, limit |-> req[r].arg],
               status |-> 200, fallback |-> FALSE, genres |-> req[r].found,
               movies |-> FixedAll(MoviesOf(Slice(
                            SortRows(RecommendedRows(req[r].user, req[r].found), RatedOrder, tb),
                            0, TopLimitOf(req[r].arg))))]
  /\ UNCHANGED <<ratings, activity, reviews, nextReviewId, watchlists, users, strictMode, clients, quota, started>>

\* exports.getTopRatedMovies(req, res) without the return: the delegate
\* answers and the handler goes on to its last query
RecTopRated_FallsThrough(r) ==
  /\ req[r].pc = "rec_topRated"
  /\ req' = [req EXCEPT ![r].pc = "rec_query", ![r].res = Res(200, "", 0),
                        ![r].sent = @ + 1, ![r].found = {}]
  /\ \E tb \in TieBreaks :
       out' = [op |-> "getRecommendations", q |-> [user |-> req[r].user, limit |-> req[r].arg],
               status |-> 200, fallback |-> TRUE, genres |-> {},
               movies |-> TopRatedMovies(req[r].arg, tb)]
  /\ UNCHANGED <<ratings, activity, reviews, nextReviewId, watchlists, users, strictMode, clients, quota, started>>

\* return exports.getTopRatedMovies(req, res)
RecTopRated(r) ==
  /\ req[r].pc = "rec_topRated"
  /\ Respond(r, Res(200, "", 0))
  /\ \E tb \in TieBreaks :
       out' = [op |-> "getRecommendations", q |-> [user |-> req[r].user, limit |-> req[r].arg],
               status |-> 200, fallback |-> TRUE, genres |-> {},
               movies |-> TopRatedMovies(req[r].arg, tb)]
  /\ UNCHANGED <<ratings, activity, reviews, nextReviewId, watchlists, users, strictMode, clients, quota, started>>

(***************************************************************************)
(* Watchlists                                                              *)
(***************************************************************************)
WatchlistRows(u, m) == {row \in watchlists : row.user_id = u /\ row.movie_id = m}

\* Watchlist.findOne({ where: { user_id, movie_id } }): the id of a matching row, 0 for null
FoundWatchlist(u, m) ==
  IF WatchlistRows(u, m) = {} THEN {0} ELSE {row.watchlist_id : row \in WatchlistRows(u, m)}

\* the unique index on (user_id, movie_id) of the Watchlist model
WatchlistIndexAllows(u, m) == WatchlistRows(u, m) = {}

\* an id no row of the table has (the ids of removed rows are not kept)
NewWatchlistId ==
  IF watchlists = {} THEN 1 ELSE MaxOf({row.watchlist_id : row \in watchlists}) + 1

AddStart(r, u, m) ==
  /\ CanStart(r)
  /\ Begin(r, "addToWatchlist", u, [movie |-> m], "aw_findMovie")
  /\ UNCHANGED <<ratings, activity, reviews, nextReviewId, watchlists, users, strictMode, clients, quota>>
  /\ out' = NoOut

\* the handler without its test of the movie
AddFindMovie_NoCheck(r) ==
  /\ req[r].pc = "aw_findMovie"
  /\ Goto(r, "aw_findItem")
  /\ UNCHANGED <<ratings, activity, reviews, nextReviewId, watchlists, users, strictMode, clients, quota, started, out>>

\* Movie.findByPk(movie_id)
AddFindMovie(r) ==
  /\ req[r].pc = "aw_findMovie"
  /\ IF req[r].arg.movie \in Movies
     THEN Goto(r, "aw_findItem")
     ELSE Respond(r, Res(404, "Movie not found", 0))
  /\ UNCHANGED <<ratings, activity, reviews, nextReviewId, watchlists, users, strictMode, clients, quota, started, out>>

\* Watchlist.findOne: an existing item ends the request with 400
AddFindItem(r) ==
  /\ req[r].pc = "aw_findItem"
  /\ \E f \in FoundWatchlist(req[r].user, req[r].arg.movie) :
       IF f # 0
       THEN Respond(r, Res(400, "Movie is already in your watchlist", 0))
       ELSE Goto(r, "aw_create")
  /\ UNCHANGED <<ratings, activity, reviews, nextReviewId, watchlists, users, strictMode, clients, quota, started, out>>

\* Watchlist.create({ user_id, movie_id }); the unique index rejects a second
\* row of the pair and the error goes to the catch block
AddCreate(r) ==
  /\ req[r].pc = "aw_create"
  /\ IF WatchlistIndexAllows(req[r].user, req[r].arg.movie)
     THEN /\ watchlists' = watchlists \cup
               {[watchlist_id |-> NewWatchlistId, user_id |-> req[r].user,
                 movie_id |-> req[r].arg.movie]}
          /\ req' = [req EXCEPT ![r].pc = "aw_fetch", ![r].found = NewWatchlistId]
     ELSE /\ Respond(r, ServerError)
          /\ UNCHANGED watchlists
  /\ UNCHANGED <<ratings, activity, reviews, nextReviewId, users, strictMode, clients, quota, started, out>>

\* Watchlist.findByPk(watchlistItem.watchlist_id, { include }) and the 201 response
AddFetch(r) ==
  /\ req[r].pc = "aw_fetch"
  /\ Respond(r, Res(201, "Added to watchlist successfully", req[r].found))
  /\ UNCHANGED <<ratings, activity, reviews, nextReviewId, watchlists, users, strictMode, clients, quota, started, out>>

RemoveStart(r, u, m) ==
  /\ CanStart(r)
  /\ Begin(r, "removeFromWatchlist", u, [movie |-> m], "rw_find")
  /\ UNCHANGED <<ratings, activity, reviews, nextReviewId, watchlists, users, strictMode, clients, quota>>
  /\ out' = NoOut

\* Watchlist.findOne({ where: { user_id, movie_id: movieId } })
RemoveFind(r) ==
  /\ req[r].pc = "rw_find"
  /\ \E f \in FoundWatchlist(req[r].user, req[r].arg.movie) :
       IF f = 0
       THEN Respond(r, Res(404, "Movie not found in watchlist", 0))
       ELSE req' = [req EXCEPT ![r].pc = "rw_destroy", ![r].found = f]
  /\ UNCHANGED <<ratings, activity, reviews, nextReviewId, watchlists, users, strictMode, clients, quota, started, out>>

\* watchlistItem.destroy(): DELETE FROM watchlists WHERE watchlist_id = id
RemoveDestroy(r) ==
  /\ req[r].pc = "rw_destroy"
  /\ watchlists' = {row \in watchlists : row.watchlist_id # req[r].found}
  /\ Respond(r, Res(200, "Removed from watchlist successfully", 0))
  /\ UNCHANGED <<ratings, activity, reviews, nextReviewId, users, strictMode, clients, quota, started, out>>

(***************************************************************************)
(* The auth and optionalAuth middleware.  A token is absent, or fails      *)
(* jwt.verify (malformed, wrongly signed, expired), or verifies and        *)
(* decodes to a user id.  next() hands the request to the controller named *)
(* by op, at the controller's first statement.                             *)
(* The users table answers every findByPk; no row of it is ever removed or  *)
(* set active again.                                                       *)
(***************************************************************************)
NoToken == [kind |-> "none", id |-> 0]

\* jwt.decode in the place of jwt.verify: every token that is present passes
Verifies_Unchecked(token) == token.kind # "none"

\* jwt.verify(token, process.env.JWT_SECRET) returns
Verifies(token) == token.kind = "ok"

\* the test without its is_active part
AuthAccepts_Inactive(id) == id \in DOMAIN users

\* User.findByPk(decoded.id) finds a row and the row is active
AuthAccepts(id) == id \in DOMAIN users /\ users[id].is_active

\* the first statement of the controllers behind the middleware
EntryPc(op) ==
  CASE op = "deleteAccount" -> "da_find"
    [] op = "getRecommendations" -> "rec_findRated"
    [] OTHER -> "gb_findMovie"

\* next(): req.user is the user attached, 0 for none
CallNext(r, u) ==
  req' = [req EXCEPT ![r].pc = EntryPc(req[r].op), ![r].user = u, ![r].found = 0]

Unauthorized(message) == Res(401, message, 0)

\* the token is read from the header and verified; without an await in
\* between, a missing and a failing token are answered at once
AuthStart(r, token, op, arg) ==
  /\ CanStart(r)
  /\ started' = started + 1
  /\ req' = [req EXCEPT ![r] =
       [op |-> op, user |-> 0, arg |-> arg, found |-> token,
        sent |-> IF token.kind # "none" /\ Verifies(token) THEN 0 ELSE 1,
        pc |-> IF token.kind # "none" /\ Verifies(token) THEN "auth_findUser" ELSE "done",
        res |-> IF token.kind = "none" THEN Unauthorized("Not authorized, no token")
                ELSE IF ~Verifies(token) THEN Unauthorized("Not authorized, token failed")
                ELSE NoRes]]
  /\ out' = NoOut
  /\ UNCHANGED <<ratings, activity, reviews, nextReviewId, watchlists, users, strictMode, clients, quota>>

\* User.findByPk(decoded.id) and the tests on req.user
AuthFindUser(r) ==
  /\ req[r].pc = "auth_findUser"
  /\ IF req[r].found.id \notin DOMAIN users
     THEN Respond(r, Unauthorized("Not authorized, user not found"))
     ELSE IF ~AuthAccepts(req[r].found.id)
     THEN Respond(r, Unauthorized("Account is deactivated"))
     ELSE CallNext(r, req[r].found.id)
  /\ UNCHANGED <<ratings, activity, reviews, nextReviewId, watchlists, users, strictMode, clients, quota, started, out>>

\* optionalAuth: without a token, or with one that fails, next() is called at
\* once with no user
OptionalAuthStart(r, token, op, arg) ==
  /\ CanStart(r)
  /\ started' = started + 1
  /\ req' = [req EXCEPT ![r] =
       [op |-> op, user |-> 0, arg |-> arg, res |-> NoRes, sent |-> 0,
        found |-> IF Verifies(token) THEN token ELSE 0,
        pc |-> IF Verifies(token) THEN "opt_findUser" ELSE EntryPc(op)]]
  /\ out' = NoOut
  /\ UNCHANGED <<ratings, activity, reviews, nextReviewId, watchlists, users, strictMode, clients, quota>>

\* req.user = await User.findByPk(decoded.id); next()
OptionalAuthFindUser(r) ==
  /\ req[r].pc = "opt_findUser"
  /\ CallNext(r, IF req[r].found.id \in DOMAIN users THEN req[r].found.id ELSE 0)
  /\ UNCHANGED <<ratings, activity, reviews, nextReviewId, watchlists, users, strictMode, clients, quota, started, out>>

(***************************************************************************)
(* deleteAccount                                                           *)
(***************************************************************************)
\* User.findByPk(req.user.user_id)
DeleteAccountFind(r) ==
  /\ req[r].pc = "da_find"
  /\ IF req[r].user \notin DOMAIN users
     THEN Respond(r, Res(404, "User not found", 0))
     ELSE Goto(r, "da_update")
  /\ UNCHANGED <<ratings, activity, reviews, nextReviewId, watchlists, users, strictMode, clients, quota, started, out>>

\* the update clearing the profile as well
Deactivated_Wiped(u) ==
  [users EXCEPT ![u] = [is_active |-> FALSE, first_name |-> Null, last_name |-> Null,
                        bio |-> Null]]

\* user.update({ is_active: false })
Deactivated(u) == [users EXCEPT ![u].is_active = FALSE]

DeleteAccountUpdate(r) ==
  /\ req[r].pc = "da_update"
  /\ users' = Deactivated(req[r].user)
  /\ Respond(r, Res(200, "Account deleted successfully", 0))
  /\ UNCHANGED <<ratings, activity, reviews, nextReviewId, watchlists, strictMode, clients, quota, started, out>>

(***************************************************************************)
(* updateProfile                                                           *)
(***************************************************************************)
ProfileStart(r, u, first_name, last_name, bio) ==
  /\ CanStart(r)
  /\ Begin(r, "updateProfile", u,
           [first_name |-> first_name, last_name |-> last_name, bio |-> bio], "up_find")
  /\ UNCHANGED <<ratings, activity, reviews, nextReviewId, watchlists, users, strictMode, clients, quota>>
  /\ out' = NoOut

\* first_name || user.first_name, last_name || user.last_name, bio || user.bio
ProfileValues(arg, row) ==
  [first_name |-> IF Falsy(arg.first_name) THEN row.first_name ELSE arg.first_name,
   last_name |-> IF Falsy(arg.last_name) THEN row.last_name ELSE arg.last_name,
   bio |-> IF Falsy(arg.bio) THEN row.bio ELSE arg.bio]

\* User.findByPk(req.user.user_id) and the values update() will write
ProfileFind(r) ==
  /\ req[r].pc = "up_find"
  /\ IF req[r].user \notin DOMAIN users
     THEN Respond(r, Res(404, "User not found", 0))
     ELSE req' = [req EXCEPT ![r].pc = "up_update",
                             ![r].found = ProfileValues(req[r].arg, users[req[r].user])]
  /\ UNCHANGED <<ratings, activity, reviews, nextReviewId, watchlists, users, strictMode, clients, quota, started, out>>

\* user.update({ first_name, last_name, bio }) and the 200 response
ProfileUpdate(r) ==
  /\ req[r].pc = "up_update"
  /\ users' = [users EXCEPT ![req[r].user].first_name = req[r].found.first_name,
                            ![req[r].user].last_name = req[r].found.last_name,
                            ![req[r].user].bio = req[r].found.bio]
  /\ Respond(r, Res(200, "Profile updated successfully", req[r].found))
  /\ UNCHANGED <<ratings, activity, reviews, nextReviewId, watchlists, strictMode, clients, quota, started, out>>

(***************************************************************************)
(* getRatingDistribution and the rating distribution of                    *)
(* getUserActivityStats.  A range label is the sequence of its character   *)
(* codes.  Of the response of getUserActivityStats the ratingDistribution  *)
(* is modelled.                                                            *)
(***************************************************************************)
\* 'd-d.9' for a digit d
UnitRange(d) == <<48 + d, 45, 48 + d, 46, 57>>

\* the CASE over rating, which is held in tenths
RangeOf(v) ==
  IF v >= 90 THEN <<57, 45, 49, 48>>
  ELSE IF v >= 80 THEN UnitRange(8)
  ELSE IF v >= 70 THEN UnitRange(7)
  ELSE IF v >= 60 THEN UnitRange(6)
  ELSE IF v >= 50 THEN UnitRange(5)
  ELSE IF v >= 40 THEN UnitRange(4)
  ELSE IF v >= 30 THEN UnitRange(3)
  ELSE IF v >= 20 THEN UnitRange(2)
  ELSE <<48, 45, 49, 46, 57>>

\* GROUP BY rating_range with COUNT(DISTINCT rating) in the place of COUNT(*)
Grouped_Distinct(rows) ==
  {[rating_range |-> g,
    count |-> Cardinality({row.rating : row \in {x \in rows : RangeOf(x.rating) = g}})] :
     g \in {RangeOf(row.rating) : row \in rows}}

\* SELECT rating_range, COUNT(*) ... GROUP BY rating_range
Grouped(rows) ==
  {[rating_range |-> g, count |-> Cardinality({row \in rows : RangeOf(row.rating) = g})] :
     g \in {RangeOf(row.rating) : row \in rows}}

\* ORDER BY rating_range DESC: the labels compared as strings
RECURSIVE RangeDesc(_)
RangeDesc(B) ==
  IF B = {} THEN <<>>
  ELSE LET top == CHOOSE x \in B :
                    \A y \in B \ {x} : LexLess(KeyOf(y.rating_range), KeyOf(x.rating_range))
       IN <<top>> \o RangeDesc(B \ {top})

GetRatingDistribution(r) ==
  Read(r, [op |-> "getRatingDistribution", q |-> 0, status |-> 200,
           ratings |-> RangeDesc(Grouped(ratings))])

\* WHERE user_id = ?
GetUserActivityStats(r, u) ==
  Read(r, [op |-> "getUserActivityStats", q |-> u, status |-> 200,
           ratings |-> RangeDesc(Grouped({row \in ratings : row.user_id = u}))])

(***************************************************************************)
(* getDatabaseStats: ten queries, one after the other.  No movie of the    *)
(* catalogue has a runtime_minutes.                                        *)
(***************************************************************************)
StatNames ==
  <<"totalMovies", "totalUsers", "totalGenres", "avgRuntime", "oldestYear", "latestYear",
    "totalRuntime", "avgRating", "totalRatings", "totalReviews">>

\* YEAR(release_date) of the movies that have a release date
ReleaseYears == {ReleaseDate(m) \div 10000 : m \in {x \in Movies : ReleaseDate(x) # 0}}

StatValue(name) ==
  CASE name = "totalMovies" -> Cardinality(Movies)
    [] name = "totalUsers" -> Cardinality({u \in DOMAIN users : users[u].is_active})
    [] name = "totalGenres" -> Cardinality(Genres)
    [] name = "oldestYear" -> IF ReleaseYears = {} THEN 0 ELSE -MaxOf({-y : y \in ReleaseYears})
    [] name = "latestYear" -> IF ReleaseYears = {} THEN 0 ELSE MaxOf(ReleaseYears)
    [] name = "avgRating" ->
         IF ratings = {} THEN 0
         ELSE ToFixed1(RoundDiv(SumRatings(ratings) * AvgScale, Cardinality(ratings)))
    [] name = "totalRatings" -> Cardinality(ratings)
    [] name = "totalReviews" -> Cardinality(reviews)
    [] OTHER -> 0

DbStatsStart(r) ==
  /\ CanStart(r)
  /\ out = NoOut
  /\ started' = started + 1
  /\ req' = [req EXCEPT ![r] = [Idle EXCEPT !.op = "getDatabaseStats", !.pc = "ds_query",
                                            !.found = <<>>]]
  /\ out' = NoOut
  /\ UNCHANGED <<ratings, activity, reviews, nextReviewId, watchlists, users, strictMode, clients, quota>>

\* the next query; after the last one the response
DbStatsQuery(r) ==
  /\ req[r].pc = "ds_query"
  /\ LET got == Append(req[r].found, StatValue(StatNames[Len(req[r].found) + 1]))
     IN IF Len(got) < Len(StatNames)
        THEN /\ req' = [req EXCEPT ![r].found = got]
             /\ UNCHANGED out
        ELSE /\ Respond(r, Res(200, "", 0))
             /\ out' = [op |-> "getDatabaseStats", status |-> 200, stats |-> got]
  /\ UNCHANGED <<ratings, activity, reviews, nextReviewId, watchlists, users, strictMode, clients, quota, started>>

(***************************************************************************)
(* A query that the storage layer rejects throws into the handler's catch  *)
(* block.                                                                  *)
(***************************************************************************)
\* res.status(500).json({ success: false, message: 'Server error' })
Failed(op) == [op |-> op, status |-> 500, message |-> "Server error"]

QueryPcs == {"rec_findRated", "rec_findGenres", "rec_query", "rec_topRated", "ds_query"}

\* the query a handler is waiting for fails
StorageFails(r) ==
  /\ req[r].pc \in QueryPcs
  /\ Respond(r, ServerError)
  /\ out' = Failed(req[r].op)
  /\ UNCHANGED <<ratings, activity, reviews, nextReviewId, watchlists, users, strictMode, clients, quota, started>>

\* the one query of getTopRatedMovies fails
GetTopRatedMoviesFails(r) == Read(r, Failed("getTopRatedMovies"))

(***************************************************************************)
(* Specifications                                                          *)
(***************************************************************************)
EmptyDb ==
  /\ ratings = {}
  /\ activity = [p \in Users \X Movies |-> 0]
  /\ reviews = {}
  /\ nextReviewId = 1
  /\ watchlists = {}
  /\ users = [u \in Users |-> [is_active |-> TRUE, first_name |-> "F", last_name |-> "L",
                                bio |-> "B"]]
  /\ strictMode \in BOOLEAN
  /\ started = 0
  /\ req = [r \in Slots |-> Idle]
  /\ out = NoOut

\* concurrent rateMovie requests
InitRate == EmptyDb /\ clients = Slots /\ quota = MaxReqs
\* the racing requests are one user's, and name one movie or an id that is no movie
RaceUsers == {1}
RaceMovies == {1, NMovies + 1}

NextRate ==
  \E r \in Slots :
    \/ \E u \in RaceUsers, m \in RaceMovies, v \in RatingInputs : RateStart(r, u, m, v)
    \/ RateFindMovie(r)
    \/ RateFindRating(r)
    \/ RateWrite(r)
    \/ RateLog(r)
SpecRate == InitRate /\ [][NextRate]_vars

\* sequential rateMovie requests: one client, one request at a time
InitRateSeq == EmptyDb /\ clients = {1} /\ quota = MaxReqs
SeqMovies == {1, 2, NMovies + 1}
NextRateSeq ==
  \E r \in Slots :
    \/ \E u \in Users, m \in SeqMovies, v \in RatingInputs : RateStart(r, u, m, v)
    \/ RateFindMovie(r)
    \/ RateFindRating(r)
    \/ RateWrite(r)
    \/ RateLog(r)
SpecRateSeq == InitRateSeq /\ [][NextRateSeq]_vars

\* concurrent createReview, updateReview and deleteReview requests
\* two users write reviews, and name the first two review ids
ReviewUsers == {1, 2}
ReviewIdParams == 1..2
InitReview == EmptyDb /\ clients = Slots /\ quota = MaxReqs
NextReview ==
  \E r \in Slots :
    \/ \E u \in ReviewUsers, m \in RaceMovies : CreateStart(r, u, m, "T", "C", Undefined)
    \/ CreateFindMovie(r)
    \/ CreateFindReview(r)
    \/ CreateInsert(r)
    \/ CreateFetch(r)
    \/ \E u \in ReviewUsers, id \in ReviewIdParams : UpdateStart(r, u, id, Undefined, "D", Undefined)
    \/ UpdateFind(r)
    \/ UpdateWrite(r)
    \/ UpdateFetch(r)
    \/ \E u \in ReviewUsers, id \in ReviewIdParams : DeleteStart(r, u, id)
    \/ DeleteFind(r)
    \/ DeleteDestroy(r)
SpecReview == InitReview /\ [][NextReview]_vars

\* movie listing over a catalogue rated by sequential rateMovie requests
MaxCalls == 3
SeedUsers == {1, 2}
SeedMovies == {1, 3}
SeedRatings == {30, 85}
SortInputs == {Undefined, "rating-asc", "rating-desc", "newest"}
NoFilter == [search |-> <<>>, year |-> 0, genre |-> <<>>]
\* title like '%P%', released in 2001, a genre like '%ar%'
Filters ==
  {NoFilter, [NoFilter EXCEPT !.search = <<80>>], [NoFilter EXCEPT !.year = 2001],
   [NoFilter EXCEPT !.genre = <<97, 114>>]}
ListQueries ==
  [page : {1, 2}, limit : {1, 2}, sort : SortInputs, minRating : {NoMin, 60},
   search : {<<>>}, year : {0}, genre : {<<>>}]
  \cup {[page |-> 0, limit |-> 0, sort |-> "year-desc", minRating |-> NoMin,
         search |-> f.search, year |-> f.year, genre |-> f.genre] : f \in Filters}
  \cup {[page |-> 0, limit |-> 0, sort |-> "rating-desc", minRating |-> NoMin,
         search |-> <<>>, year |-> 0, genre |-> <<>>]}

InitList == EmptyDb /\ strictMode /\ clients = {1} /\ quota = MaxCalls
NextList ==
  \E r \in Slots :
    \/ \E u \in SeedUsers, m \in SeedMovies, v \in SeedRatings : RateStart(r, u, m, v)
    \/ RateFindMovie(r)
    \/ RateFindRating(r)
    \/ RateWrite(r)
    \/ RateLog(r)
    \/ \E q \in ListQueries : GetMovies(r, q)
SpecList == InitList /\ [][NextList]_vars

\* the six endpoints that report a movie's aggregates, over a rated catalogue
AggSorts == {Undefined, "rating-desc"}
AggListQueries ==
  [page : {1}, limit : {0, 2}, sort : AggSorts, minRating : {NoMin},
   search : {<<>>}, year : {0}, genre : {<<>>}]
AggPageQueries == [page : {1}, limit : {0, 2}, sort : AggSorts]
\* 'war', 'Art', 'ar', 'Noir'
GenreParams == {<<119, 97, 114>>, <<65, 114, 116>>, <<97, 114>>, <<78, 111, 105, 114>>}
AggGenreQueries == [page : {1}, limit : {0, 2}, genre : GenreParams]
\* no q, 'p', 'cop'
SearchParams == {<<>>, <<112>>, <<99, 111, 112>>}

InitAgg == EmptyDb /\ strictMode /\ clients = {1} /\ quota = MaxCalls
NextAgg ==
  \E r \in Slots :
    \/ \E u \in SeedUsers, m \in SeedMovies, v \in SeedRatings : RateStart(r, u, m, v)
    \/ RateFindMovie(r)
    \/ RateFindRating(r)
    \/ RateWrite(r)
    \/ RateLog(r)
    \/ \E q \in AggListQueries : GetMovies(r, q)
    \/ \E u \in {0, 1}, id \in MovieParams : GetByIdStart(r, u, id)
    \/ GetByIdFindMovie(r)
    \/ GetByIdFindRating(r)
    \/ GetByIdFindWatchlist(r)
    \/ \E q \in AggPageQueries : GetNewReleases(r, q)
    \/ \E query \in SearchParams : SearchMovies(r, query)
    \/ \E l \in {0, 1} : GetTopRatedMovies(r, l)
    \/ \E q \in AggGenreQueries : GetMoviesByGenre(r, q)
SpecAgg == InitAgg /\ [][NextAgg]_vars

\* recommendations for users who rated part of the catalogue
RecMovies == {1, 2, 3}
InitRec == EmptyDb /\ strictMode /\ clients = {1} /\ quota = MaxCalls
NextRec ==
  \E r \in Slots :
    \/ \E u \in SeedUsers, m \in RecMovies, v \in SeedRatings : RateStart(r, u, m, v)
    \/ RateFindMovie(r)
    \/ RateFindRating(r)
    \/ RateWrite(r)
    \/ RateLog(r)
    \/ \E u \in SeedUsers, l \in {0, 1} : RecStart(r, u, l)
    \/ RecFindRated(r)
    \/ RecFindGenres(r)
    \/ RecQuery(r)
    \/ RecTopRated(r)
    \/ \E l \in {0, 1} : GetTopRatedMovies(r, l)
SpecRec == InitRec /\ [][NextRec]_vars

\* the top-rated list over movies rated 3.0, 5.8 and 8.5
TopRatings == {30, 58, 85}
TopMovies == {1, 2}
InitTop == EmptyDb /\ strictMode /\ clients = {1} /\ quota = MaxCalls + 1
NextTop ==
  \E r \in Slots :
    \/ \E u \in SeedUsers, m \in TopMovies, v \in TopRatings : RateStart(r, u, m, v)
    \/ RateFindMovie(r)
    \/ RateFindRating(r)
    \/ RateWrite(r)
    \/ RateLog(r)
    \/ \E l \in {0, 1, 2} : GetTopRatedMovies(r, l)
SpecTop == InitTop /\ [][NextTop]_vars

\* requests of two clients through the middleware: deleteAccount and
\* getRecommendations behind auth, getMovieById behind optionalAuth
AuthTokens == {NoToken} \cup [kind : {"bad", "ok"}, id : {1, NUsers + 1}]
InitAuth == EmptyDb /\ strictMode /\ clients = {1, 2} /\ quota = MaxReqs
NextAuth ==
  \E r \in Slots :
    \/ \E token \in AuthTokens : AuthStart(r, token, "deleteAccount", 0)
    \/ \E token \in AuthTokens : AuthStart(r, token, "getRecommendations", 0)
    \/ \E token \in AuthTokens : OptionalAuthStart(r, token, "getMovieById", 1)
    \/ AuthFindUser(r)
    \/ OptionalAuthFindUser(r)
    \/ DeleteAccountFind(r)
    \/ DeleteAccountUpdate(r)
    \/ RecFindRated(r)
    \/ RecTopRated(r)
    \/ GetByIdFindMovie(r)
    \/ GetByIdFindRating(r)
    \/ GetByIdFindWatchlist(r)
SpecAuth == InitAuth /\ [][NextAuth]_vars

\* one client's write requests, with and without their required fields, for a
\* movie and for an id that is no movie; the activity insert can fail
InputRatings == {NoRating, 85, 101}
InputContents == {Undefined, "C"}
InitInput == EmptyDb /\ strictMode /\ clients = {1} /\ quota = MaxReqs
NextInput ==
  \E r \in Slots :
    \/ \E m \in RaceMovies, v \in InputRatings : RateStart(r, 1, m, v)
    \/ RateFindMovie(r)
    \/ RateFindRating(r)
    \/ RateWrite(r)
    \/ RateLog(r)
    \/ RateLogFails(r)
    \/ \E m \in RaceMovies, content \in InputContents :
         CreateStart(r, 1, m, Undefined, content, Undefined)
    \/ CreateFindMovie(r)
    \/ CreateFindReview(r)
    \/ CreateInsert(r)
    \/ CreateFetch(r)
    \/ \E m \in RaceMovies : AddStart(r, 1, m)
    \/ AddFindMovie(r)
    \/ AddFindItem(r)
    \/ AddCreate(r)
    \/ AddFetch(r)
SpecInput == InitInput /\ [][NextInput]_vars

\* concurrent addToWatchlist and removeFromWatchlist requests of one user
InitWatch == EmptyDb /\ strictMode /\ clients = Slots /\ quota = MaxReqs + 1
NextWatch ==
  \E r \in Slots :
    \/ \E m \in RaceMovies : AddStart(r, 1, m)
    \/ AddFindMovie(r)
    \/ AddFindItem(r)
    \/ AddCreate(r)
    \/ AddFetch(r)
    \/ RemoveStart(r, 1, 1)
    \/ RemoveFind(r)
    \/ RemoveDestroy(r)
SpecWatch == InitWatch /\ [][NextWatch]_vars

\* one user rates, reviews and lists a movie and deletes the account; requests
\* reach the controllers through auth, which refuses them after the deletion
InitAccount == EmptyDb /\ strictMode /\ clients = {1} /\ quota = MaxReqs + 1
NextAccount ==
  \E r \in Slots :
    \/ users[1].is_active /\ RateStart(r, 1, 1, 85)
    \/ RateFindMovie(r)
    \/ RateFindRating(r)
    \/ RateWrite(r)
    \/ RateLog(r)
    \/ users[1].is_active /\ CreateStart(r, 1, 1, "T", "C", Undefined)
    \/ CreateFindMovie(r)
    \/ CreateFindReview(r)
    \/ CreateInsert(r)
    \/ CreateFetch(r)
    \/ users[1].is_active /\ AddStart(r, 1, 1)
    \/ AddFindMovie(r)
    \/ AddFindItem(r)
    \/ AddCreate(r)
    \/ AddFetch(r)
    \/ AuthStart(r, [kind |-> "ok", id |-> 1], "deleteAccount", 0)
    \/ AuthFindUser(r)
    \/ DeleteAccountFind(r)
    \/ DeleteAccountUpdate(r)
SpecAccount == InitAccount /\ [][NextAccount]_vars

\* one user writes a review and then updates it and the profile, with each
\* field left out, empty, or given
TitleInputs == {Undefined, "", "X"}
SpoilerInputs == {Undefined, "false", "true"}
BioInputs == {Undefined, "", "N"}
InitUpdate == EmptyDb /\ strictMode /\ clients = {1} /\ quota = MaxReqs
NextUpdate ==
  \E r \in Slots :
    \/ CreateStart(r, 1, 1, "T", "C", "true")
    \/ CreateFindMovie(r)
    \/ CreateFindReview(r)
    \/ CreateInsert(r)
    \/ CreateFetch(r)
    \/ \E title \in TitleInputs, content \in {Undefined, "D"}, sp \in SpoilerInputs :
         UpdateStart(r, 1, 1, title, content, sp)
    \/ UpdateFind(r)
    \/ UpdateWrite(r)
    \/ UpdateFetch(r)
    \/ \E first \in {Undefined, "G"}, bio \in BioInputs : ProfileStart(r, 1, first, Undefined, bio)
    \/ ProfileFind(r)
    \/ ProfileUpdate(r)
SpecUpdate == InitUpdate /\ [][NextUpdate]_vars

\* the distributions over ratings of 1.5, 8.5 and 9.5 by two users
DistRatings == {15, 85, 95}
InitDist == EmptyDb /\ strictMode /\ clients = {1} /\ quota = MaxCalls + 1
NextDist ==
  \E r \in Slots :
    \/ \E u \in SeedUsers, m \in TopMovies, v \in DistRatings : RateStart(r, u, m, v)
    \/ RateFindMovie(r)
    \/ RateFindRating(r)
    \/ RateWrite(r)
    \/ RateLog(r)
    \/ GetRatingDistribution(r)
    \/ \E u \in SeedUsers : GetUserActivityStats(r, u)
SpecDist == InitDist /\ [][NextDist]_vars

\* recommendations, the top-rated list and the database statistics over
\* ratings of one user, with queries that can fail
FailMovies == {1, 3}
InitFail == EmptyDb /\ strictMode /\ clients = {1} /\ quota = MaxCalls
NextFail ==
  \E r \in Slots :
    \/ \E m \in FailMovies, v \in SeedRatings : RateStart(r, 1, m, v)
    \/ RateFindMovie(r)
    \/ RateFindRating(r)
    \/ RateWrite(r)
    \/ RateLog(r)
    \/ RateLogFails(r)
    \/ RecStart(r, 1, 0)
    \/ RecFindRated(r)
    \/ RecFindGenres(r)
    \/ RecQuery(r)
    \/ RecTopRated(r)
    \/ GetTopRatedMovies(r, 0)
    \/ GetTopRatedMoviesFails(r)
    \/ DbStatsStart(r)
    \/ DbStatsQuery(r)
    \/ StorageFails(r)
SpecFail == InitFail /\ [][NextFail]_vars

(***************************************************************************)
(* Claims                                                                  *)
(***************************************************************************)
\* a value outside [0,10], in tenths
OutsideRange(v) == v < 0 \/ v > 100

IsRate(r) == req[r].op = "rateMovie"

\* C1: a rateMovie request whose rating is outside [0,10] is answered 400 at once
\* (it is never in flight), and the step that takes it changes neither the
\* ratings table nor the user_activity log, whatever the movie id or the rows
\* already stored.
C1_Rejected ==
  \A r \in Slots :
    (IsRate(r) /\ OutsideRange(req[r].arg.rating)) =>
      /\ req[r].pc = "done"
      /\ req[r].res.status = 400
      /\ req[r].res.message = "Rating must be between 0 and 10"
C1_NoWrite ==
  (\E r \in Slots : /\ req'[r].op = "rateMovie"
                    /\ OutsideRange(req'[r].arg.rating)
                    /\ started' # started
                    /\ req'[r].pc = "done" /\ req[r].pc \in {"idle", "done"})
    => (ratings' = ratings /\ activity' = activity)
C1_OutOfRangeRejectedBeforeWrite == []C1_Rejected /\ [][C1_NoWrite]_vars

\* C1 witness: an out-of-range rating was answered 400 for a movie the user had
\* already rated, and another one for an id that is no movie.
C1_Witness ==
  /\ \E r \in Slots : /\ IsRate(r) /\ req[r].res.status = 400
                      /\ RatingRows(req[r].user, req[r].arg.movie) # {}
  /\ \E r \in Slots : /\ IsRate(r) /\ req[r].res.status = 400
                      /\ req[r].arg.movie \notin Movies

\* C2: with requests executed one after the other, the ratings table holds at
\* most one row per (user, movie), and a rating of a pair that has a row leaves
\* the number of rows unchanged and leaves that row holding the submitted value.
AtMostOneRatingPerPair ==
  \A u \in Users, m \in Movies : Cardinality(RatingRows(u, m)) <= 1
C2_UpdateStep ==
  \A r \in Slots :
    (req[r].pc = "rate_write" /\ req[r].found # 0 /\ req'[r].pc # "rate_write") =>
      /\ Cardinality(ratings') = Cardinality(ratings)
      /\ \A row \in ratings' :
           (row.user_id = req[r].user /\ row.movie_id = req[r].arg.movie)
             => row.rating = req[r].arg.rating
C2_SecondRatingReplaces == []AtMostOneRatingPerPair /\ [][C2_UpdateStep]_vars

\* the part of C2 the column can hold: submitted values up to 9.9
C2_UpdateStepFitting ==
  \A r \in Slots :
    (req[r].pc = "rate_write" /\ req[r].found # 0 /\ req'[r].pc # "rate_write"
       /\ req[r].arg.rating <= 99) =>
      /\ Cardinality(ratings') = Cardinality(ratings)
      /\ \A row \in ratings' :
           (row.user_id = req[r].user /\ row.movie_id = req[r].arg.movie)
             => row.rating = req[r].arg.rating
C2_FittingValuesReplace == []AtMostOneRatingPerPair /\ [][C2_UpdateStepFitting]_vars

IsCreate(r) == req[r].op = "createReview"

\* C3: when createReview looks up the caller's review of the movie and one exists,
\* the request is answered 400 'You have already reviewed this movie' and the
\* reviews table is unchanged; a request answered so never reaches the insert.
C3_LookupStep ==
  \A r \in Slots :
    (req[r].pc = "cr_findReview" /\ req'[r].pc # "cr_findReview"
       /\ ReviewRows(req[r].user, req[r].arg.movie) # {}) =>
      /\ req'[r].pc = "done"
      /\ req'[r].res.status = 400
      /\ req'[r].res.message = "You have already reviewed this movie"
      /\ reviews' = reviews
C3_SecondReviewRejected == [][C3_LookupStep]_vars

C3_Witness ==
  \E r \in Slots : /\ IsCreate(r) /\ req[r].res.status = 400
                   /\ req[r].res.message = "You have already reviewed this movie"
                   /\ Cardinality(ReviewRows(req[r].user, req[r].arg.movie)) = 1

\* C4: the reviews table holds at most one review per (user, movie) pair in every
\* reachable state, under any interleaving of createReview, updateReview and
\* deleteReview requests.
C4_AtMostOneReviewPerPair ==
  \A u \in Users, m \in Movies : Cardinality(ReviewRows(u, m)) <= 1

\* C5: when two rateMovie requests of one (user, movie) pair interleave, the table
\* never holds two rows of the pair, a request whose insert the unique index
\* rejects is answered 500, and when both requests found an existing row the row
\* ends up holding the value of one of the two.
SamePair(r1, r2) ==
  /\ IsRate(r1) /\ IsRate(r2)
  /\ req[r1].user = req[r2].user
  /\ req[r1].arg.movie = req[r2].arg.movie
C5_RejectedInsert ==
  \A r \in Slots :
    (req[r].pc = "rate_write" /\ req[r].found = 0 /\ req'[r].pc # "rate_write"
       /\ RatingRows(req[r].user, req[r].arg.movie) # {}) =>
      /\ req'[r].pc = "done" /\ req'[r].res.status = 500
      /\ ratings' = ratings
C5_LostUpdate ==
  \A r1, r2 \in Slots :
    (r1 # r2 /\ SamePair(r1, r2)
       /\ req[r1].pc = "done" /\ req[r2].pc = "done"
       /\ req[r1].found # 0 /\ req[r2].found # 0) =>
      \A row \in RatingRows(req[r1].user, req[r1].arg.movie) :
        row.rating \in {req[r1].arg.rating, req[r2].arg.rating}
C5_RacingRatings ==
  /\ [](AtMostOneRatingPerPair /\ C5_LostUpdate)
  /\ [][C5_RejectedInsert]_vars

\* the parts of C5 that do not rest on the stored value
C5_IndexHolds == []AtMostOneRatingPerPair /\ [][C5_RejectedInsert]_vars

\* the endpoints that report a movie with its aggregates
AggOps == {"getMovies", "getMovieById", "getNewReleases", "searchMovies",
           "getTopRatedMovies", "getMoviesByGenre"}

\* the endpoints among them that format avgRating with toFixed(1)
FixedOps == AggOps \ {"getMovies"}

Reports(ops) == out.op \in ops /\ out.status = 200

\* avgRating, in units of 0.00001, is exactly the mean of the movie's ratings
ExactMean(movie) ==
  movie.avgRating * RatingCount(movie.id) = SumRatings(RatingsOf(movie.id)) * AvgScale

\* twice the distance between avgRating and the mean, times the number of ratings
Off2(movie) ==
  LET d == movie.avgRating * RatingCount(movie.id) - SumRatings(RatingsOf(movie.id)) * AvgScale
  IN IF d < 0 THEN -2 * d ELSE 2 * d

\* C6 as stated: every movie that one of the six endpoints returns carries the
\* arithmetic mean of its rating rows as avgRating (0 when it has none) and the
\* number of its rating rows as ratingCount
C6_AvgIsMean ==
  Reports(AggOps) =>
    \A i \in 1..Len(out.movies) :
      /\ out.movies[i].ratingCount = RatingCount(out.movies[i].id)
      /\ ExactMean(out.movies[i])
      /\ (RatingCount(out.movies[i].id) = 0 => out.movies[i].avgRating = 0)

\* C6 amended: ratingCount is the number of rating rows; avgRating is 0 for a
\* movie without ratings and otherwise the mean rounded: to one decimal (at
\* most 0.05 off) by the five endpoints that format it, to the five decimals
\* of the SQL average (at most 0.000005 off) by getMovies
C6_AvgIsRoundedMean ==
  Reports(AggOps) =>
    \A i \in 1..Len(out.movies) :
      /\ out.movies[i].ratingCount = RatingCount(out.movies[i].id)
      /\ (RatingCount(out.movies[i].id) = 0 => out.movies[i].avgRating = 0)
      /\ IF out.op \in FixedOps
         THEN /\ out.movies[i].avgRating % AvgScale = 0
              /\ Off2(out.movies[i]) <= AvgScale * RatingCount(out.movies[i].id)
         ELSE Off2(out.movies[i]) <= RatingCount(out.movies[i].id)

\* a movie rated 3.0 and 8.5, mean 5.75, reported as 5.8 with ratingCount 2
C6_Witness ==
  /\ Reports(FixedOps)
  /\ \E i \in 1..Len(out.movies) :
       /\ out.movies[i].ratingCount = 2
       /\ SumRatings(RatingsOf(out.movies[i].id)) = 115
       /\ out.movies[i].avgRating = 58 * AvgScale

\* getMovies reporting the same mean as 5.75
C6_WitnessList ==
  /\ Reports({"getMovies"})
  /\ \E i \in 1..Len(out.movies) :
       /\ out.movies[i].ratingCount = 2
       /\ out.movies[i].avgRating = 575000

IsRecommended == out.op = "getRecommendations" /\ ~out.fallback

\* C7: in a getRecommendations response that is not the fallback, every movie
\* appears once and its ratingCount is the number of its rating rows, also when
\* the movie has two or three of the preferred genres
C7_RecommendedCounts ==
  IsRecommended =>
    /\ \A i, j \in 1..Len(out.movies) : i # j => out.movies[i].id # out.movies[j].id
    /\ \A i \in 1..Len(out.movies) :
         out.movies[i].ratingCount = RatingCount(out.movies[i].id)

\* the part of C7 that holds: no movie appears twice
C7_RecommendedOnce ==
  IsRecommended =>
    \A i, j \in 1..Len(out.movies) : i # j => out.movies[i].id # out.movies[j].id

\* the ratingCount that is returned: the rating rows times the preferred
\* genres of the movie
C7_CountPerGenre ==
  IsRecommended =>
    \A i \in 1..Len(out.movies) :
      out.movies[i].ratingCount =
        RatingCount(out.movies[i].id) * Cardinality(MatchingGenres(out.movies[i].id, out.genres))

IsList == out.op = "getMovies"

\* C8: a getMovies response with page >= 1 and limit >= 1, with or without
\* minRating, has at most limit movies, and pagination.pages is the ceiling of
\* total / limit: the least number of pages of limit entries that hold total
C8_PageWithinLimit ==
  (IsList /\ out.pagination.page >= 1 /\ out.pagination.limit >= 1) =>
    /\ Len(out.movies) <= out.pagination.limit
    /\ out.pagination.pages * out.pagination.limit >= out.pagination.total
    /\ (out.pagination.pages - 1) * out.pagination.limit < out.pagination.total

\* a second page of two movies, out of more than two pages
C8_Witness ==
  /\ IsList
  /\ out.q.page = 2 /\ out.q.limit = 2 /\ out.q.minRating = NoMin
  /\ Len(out.movies) = 2
  /\ out.pagination.pages = 4

\* a full page that passed the minRating filter
C8_WitnessMinRating ==
  /\ IsList
  /\ out.q.limit = 2 /\ out.q.minRating = 60
  /\ Len(out.movies) = 2
  /\ out.pagination.pages = 1

\* no movie of the sequence has a higher average than one before it
NonIncreasing(movies) ==
  \A i, j \in 1..Len(movies) : i < j => movies[i].avgRating >= movies[j].avgRating

NonDecreasing(movies) ==
  \A i, j \in 1..Len(movies) : i < j => movies[i].avgRating <= movies[j].avgRating

\* C9: with sort=rating-desc the movies of a getMovies response come in
\* non-increasing avgRating, with sort=rating-asc in non-decreasing avgRating
C9_SortedByRating ==
  /\ (IsList /\ out.q.sort = "rating-desc") =>
       NonIncreasing(out.movies)
  /\ (IsList /\ out.q.sort = "rating-asc") =>
       NonDecreasing(out.movies)

\* a rating-desc page of two movies with different averages
C9_Witness ==
  /\ IsList /\ out.q.sort = "rating-desc"
  /\ Len(out.movies) = 2
  /\ out.movies[2].avgRating < out.movies[1].avgRating

ValidSorts == {"title-asc", "title-desc", "year-asc", "year-desc", "rating-asc", "rating-desc"}

\* C10: a getMovies response to a missing or unknown sort is a response that
\* the same request with sort=title-asc gets: the same page in the same order
C10_DefaultSortIsTitleAsc ==
  (IsList /\ out.q.sort \notin ValidSorts) =>
    \E tb \in TieBreaks, count \in ListCounts(out.q) :
      out = [GetMoviesResponse([out.q EXCEPT !.sort = "title-asc"], tb, count)
               EXCEPT !.q = out.q]

\* an unknown sort value answered with "Heat" before "Up"
C10_Witness ==
  /\ IsList /\ out.q.sort = "newest"
  /\ Len(out.movies) = 2
  /\ out.movies[1].id = 3

\* a missing sort answered with two movies
C10_WitnessMissing ==
  /\ IsList /\ out.q.sort = Undefined
  /\ Len(out.movies) = 2

\* the movies of a sequence whose avgRating is at least min tenths, in order
AtLeast(movies, min) == SelectSeq(movies, LAMBDA movie : movie.avgRating >= min * AvgScale)

\* C11: a getMovies response to a request with minRating holds exactly the
\* movies of the page that the request without minRating gets (same page,
\* limit, sort and filters) whose avgRating is at least minRating, in the
\* page's order, and pagination.total is the number of movies returned
C11_MinRatingFiltersPage ==
  (IsList /\ out.q.minRating # NoMin) =>
    /\ out.pagination.total = Len(out.movies)
    /\ \E tb \in TieBreaks, count \in ListCounts(out.q) :
         out.movies =
           AtLeast(GetMoviesResponse([out.q EXCEPT !.minRating = NoMin], tb, count).movies,
                   out.q.minRating)

\* a first page of limit 2 that comes back with fewer than two movies while a
\* movie rated 6.0 or better is left for a later page
C11_Witness ==
  /\ IsList /\ out.q.minRating = 60 /\ out.q.page = 1 /\ out.q.limit = 2
  /\ Len(out.movies) < 2
  /\ out.pagination.total = Len(out.movies)
  /\ \E m \in Movies :
       /\ AvgRating(m) >= 60 * AvgScale
       /\ \A i \in 1..Len(out.movies) : out.movies[i].id # m

IsRec == out.op = "getRecommendations"

\* the list is one that getTopRatedMovies returns for the request's limit on
\* the ratings as they are
IsTopRatedList(movies, limit) == \E tb \in TieBreaks : movies = TopRatedMovies(limit, tb)

\* C12: a getRecommendations response to a user without a rating of 4 or more
\* is the list, in the order, that getTopRatedMovies returns for the same
\* limit on the same ratings
C12_FallbackIsTopRated ==
  (IsRec /\ \A row \in ratings : row.user_id = out.q.user => row.rating < 40) =>
    /\ out.fallback
    /\ IsTopRatedList(out.movies, out.q.limit)

\* a user whose one rating is 3.0 gets the two rated movies of the catalogue
C12_Witness ==
  /\ IsRec /\ out.fallback
  /\ \E row \in ratings : row.user_id = out.q.user /\ row.rating = 30
  /\ Len(out.movies) = 2

\* C14: no movie of a getRecommendations response that is not the fallback
\* has a rating row of the requesting user, whatever its value
C14_NoRatedMovieRecommended ==
  IsRecommended =>
    \A i \in 1..Len(out.movies) :
      ~\E row \in ratings : row.user_id = out.q.user /\ row.movie_id = out.movies[i].id

\* the user has rated below 4 a movie of a preferred genre, and it is left out
C14_Witness ==
  /\ IsRecommended
  /\ \E row \in ratings :
       /\ row.user_id = out.q.user /\ row.rating < 40
       /\ MatchingGenres(row.movie_id, out.genres) # {}
       /\ \A i \in 1..Len(out.movies) : out.movies[i].id # row.movie_id

IsTop == out.op = "getTopRatedMovies"

\* movie a ranks before movie b or level with it: a higher average, or the
\* same average and no fewer ratings
RanksNoLower(a, b) ==
  \/ AvgRating(a) > AvgRating(b)
  \/ AvgRating(a) = AvgRating(b) /\ RatingCount(a) >= RatingCount(b)

C13_WitnessCut ==
  /\ IsTop /\ out.q.limit = 1 /\ Len(out.movies) = 1
  /\ \E row \in ratings : row.movie_id # out.movies[1].id

\* the user's ratings of 4 and more
LikedRows(u) == {row \in ratings : row.user_id = u /\ row.rating >= 40}

\* the choices of the user's top 10 among them, in descending rating order
TopTen(u) ==
  {T \in SUBSET LikedRows(u) :
     /\ Cardinality(T) = MinOf(10, Cardinality(LikedRows(u)))
     /\ \A x \in T, y \in LikedRows(u) \ T : x.rating >= y.rating}

\* how many movies of the rows have the genre
Frequency(g, T) == Cardinality({row.movie_id : row \in {x \in T : g \in GenresOf(x.movie_id)}})

\* the choices of at most 3 genres that occur most often among the rows
MostFrequent(T) ==
  {G \in SUBSET Genres :
     /\ Cardinality(G) <= 3
     /\ \A g \in G : Frequency(g, T) > 0
     /\ \A h \in Genres \ G :
          Frequency(h, T) > 0 =>
            /\ Cardinality(G) = 3
            /\ \A g \in G : Frequency(g, T) >= Frequency(h, T)}

C16_NoGenresFallsBack ==
  (/\ IsRec
   /\ LikedRows(out.q.user) # {}
   /\ \A row \in LikedRows(out.q.user) : GenresOf(row.movie_id) = {}) =>
    /\ out.fallback
    /\ IsTopRatedList(out.movies, out.q.limit)

\* the user rated the movie without genres 8.5 and gets the top-rated list
C16_Witness ==
  /\ IsRec /\ out.fallback
  /\ \E row \in ratings :
       row.user_id = out.q.user /\ row.rating = 85 /\ GenresOf(row.movie_id) = {}
  /\ Len(out.movies) >= 1

IsByGenre == out.op = "getMoviesByGenre"

\* the movies that have a genre whose name is g, character by character
ExactlyNamed(g) == {m \in Movies : \E x \in GenresOf(m) : GenreName(x) = g}

\* the movies that have a genre whose name is g but for the case of letters
FoldedNamed(g) == {m \in Movies : \E x \in GenresOf(m) : KeyOf(GenreName(x)) = KeyOf(g)}

\* the response is a first page of the movies of S in ascending title order:
\* all of them up to the limit, none twice, none of the others
IsTitlePageOf(S) ==
  LET got == {out.movies[i].id : i \in 1..Len(out.movies)}
  IN /\ got \subseteq S
     /\ Cardinality(got) = Len(out.movies)
     /\ Len(out.movies) = MinOf(out.pagination.limit, Cardinality(S))
     /\ \A i, j \in 1..Len(out.movies) :
          i < j => ~LexLess(KeyOf(Title(out.movies[j].id)), KeyOf(Title(out.movies[i].id)))
     /\ \A m \in S \ got : \A x \in got : ~LexLess(KeyOf(Title(m)), KeyOf(Title(x)))

\* C17 as stated: a first page of getMoviesByGenre(g) holds only movies of a
\* genre whose name equals g exactly, all of them up to the limit, in ascending
\* title order
C17_GenreExactMatch ==
  (IsByGenre /\ out.q.page = 1) => IsTitlePageOf(ExactlyNamed(out.q.genre))

\* C17 amended: the genre's name equals g as a whole, never as a substring,
\* under the comparison of the storage layer, which does not tell the case of
\* letters apart: 'war' selects the movies of 'War', 'ar' selects none
C17_GenreWholeNameMatch ==
  (IsByGenre /\ out.q.page = 1) => IsTitlePageOf(FoldedNamed(out.q.genre))

\* 'Noir' selects "Pi" and "up", in this order, against the order of their keys
C17_Witness ==
  /\ IsByGenre /\ out.q.genre = <<78, 111, 105, 114>>
  /\ Len(out.movies) = 2
  /\ out.movies[1].id = 4 /\ out.movies[2].id = 2

\* 'war' selects the two movies of 'War'
C17_WitnessFolded ==
  /\ IsByGenre /\ out.q.genre = <<119, 97, 114>>
  /\ Len(out.movies) = 2

\* 'ar', a substring of 'War' and 'Art', selects nothing
C17_WitnessSubstring ==
  /\ IsByGenre /\ out.q.genre = <<97, 114>>
  /\ Len(out.movies) = 0

(***************************************************************************)
(* Authentication                                                          *)
(***************************************************************************)
\* the controllers mounted behind auth in SpecAuth
AuthOps == {"deleteAccount", "getRecommendations"}

\* the middleware has called next(): the request is at its controller's first
\* statement and nothing has been answered
NextCalled(r) == req'[r].pc = EntryPc(req[r].op) /\ req'[r].res = NoRes

\* slot r has answered 401 with the message, and its handler is over
Answered401(r, message) == req[r].pc = "done" /\ req[r].res = Unauthorized(message)

\* C18: once deleteAccount has answered 200 the user's row is there with
\* is_active = false and stays so, and every findByPk that auth makes for a
\* verified token of a deactivated user ends in 401 'Account is deactivated',
\* the next handler not being called.
C18_DeactivatedIsRefused ==
  [][\A r \in Slots :
       /\ (req[r].pc = "da_update" /\ req'[r].pc = "done" /\ req'[r].res.status = 200)
            => (req[r].user \in DOMAIN users' /\ ~users'[req[r].user].is_active)
       /\ \A u \in DOMAIN users :
            ~users[u].is_active => (u \in DOMAIN users' /\ ~users'[u].is_active)
       /\ ( /\ req[r].pc = "auth_findUser" /\ req'[r] # req[r]
            /\ req[r].found.id \in DOMAIN users /\ ~users[req[r].found.id].is_active )
            => ( /\ req'[r].pc = "done"
                 /\ req'[r].res = Unauthorized("Account is deactivated")
                 /\ req'[r].user = 0 )]_vars

\* one client's deleteAccount has answered 200 and the other client's request
\* with the same user's token has been refused as deactivated
C18_Witness ==
  \E r, d \in Slots :
    /\ req[d].op = "deleteAccount" /\ req[d].pc = "done" /\ req[d].res.status = 200
    /\ r # d /\ Answered401(r, "Account is deactivated")
    /\ req[r].found = [kind |-> "ok", id |-> req[d].user]
    /\ ~users[req[d].user].is_active

\* C19: a middleware that hands a request to its controller with a user
\* attached has found that user's row with is_active = true.
C19_AttachedUserIsActive ==
  [][\A r \in Slots :
       (req[r].pc \in {"auth_findUser", "opt_findUser"} /\ NextCalled(r) /\ req'[r].user # 0)
         => (req'[r].user \in DOMAIN users /\ users[req'[r].user].is_active)]_vars

\* the same for the auth middleware alone
C19_AuthAttachesActive ==
  [][\A r \in Slots :
       (req[r].pc = "auth_findUser" /\ NextCalled(r) /\ req'[r].user # 0)
         => (req'[r].user \in DOMAIN users /\ users[req'[r].user].is_active)]_vars

\* getMovieById is running for a user whose account is deactivated
C19_WitnessDeactivatedAttached ==
  \E r \in Slots :
    /\ req[r].op = "getMovieById" /\ req[r].pc = "gb_findRating"
    /\ req[r].user \in DOMAIN users /\ ~users[req[r].user].is_active
    /\ \E d \in Slots : req[d].op = "deleteAccount" /\ req[d].pc = "done" /\ req[d].res.status = 200

\* C20: auth calls next exactly when the token is present, verifies and is
\* the token of an existing active user; in every other case it answers 401
\* and the request is over; a request is never both answered and handed on.
C20_AuthNextOrUnauthorized ==
  [][\A r \in Slots :
       /\ (started' # started /\ req'[r] # req[r] /\ req'[r].op \in AuthOps)
            => IF req'[r].found.kind = "ok"
               THEN req'[r].pc = "auth_findUser" /\ req'[r].res = NoRes
               ELSE req'[r].pc = "done" /\ req'[r].res.status = 401
       /\ (req[r].pc = "auth_findUser" /\ req'[r] # req[r])
            => IF /\ req[r].found.kind = "ok"
                  /\ req[r].found.id \in DOMAIN users
                  /\ users[req[r].found.id].is_active
               THEN NextCalled(r) /\ req'[r].user = req[r].found.id
               ELSE req'[r].pc = "done" /\ req'[r].res.status = 401]_vars

\* one request has been handed to its controller with its user attached,
\* and a request with the token of no user has been answered 401
C20_Witness ==
  \E r, k \in Slots :
    /\ req[r].op = "getRecommendations" /\ req[r].pc = "rec_findRated" /\ req[r].user = 1
    /\ req[r].res = NoRes
    /\ Answered401(k, "Not authorized, user not found")

\* a request without a token and one whose token fails have been answered 401
C20_WitnessNoToken ==
  \E r, k \in Slots :
    /\ Answered401(r, "Not authorized, no token")
    /\ Answered401(k, "Not authorized, token failed")

(***************************************************************************)
(* Write requests: required fields, missing movies, duplicates             *)
(***************************************************************************)
\* slot r holds a request that leaves out its required field
OmitsRequired(r) ==
  \/ req[r].op = "rateMovie" /\ req[r].arg.rating = NoRating
  \/ req[r].op = "createReview" /\ req[r].arg.content = Undefined

\* C21: a rateMovie request without a rating and a createReview request
\* without content, for a movie that exists, are answered 400.
C21_MissingFieldIs400 ==
  \A r \in Slots :
    (OmitsRequired(r) /\ req[r].pc = "done" /\ req[r].arg.movie \in Movies)
      => req[r].res.status = 400

\* a request that leaves out its required field adds no rating row and no
\* review row, and changes none
C21_MissingFieldWritesNoRow ==
  [][\A r \in Slots :
       (OmitsRequired(r) /\ req'[r] # req[r] /\ req[r].pc # "done")
         => (ratings' = ratings /\ reviews' = reviews)]_vars

\* C22: an addToWatchlist request that looks up or inserts its item while
\* the pair has a watchlist row is answered 400 'Movie is already in your
\* watchlist' and leaves the table as it is.
C22_DuplicateAddIs400 ==
  [][\A r \in Slots :
       ( /\ req[r].pc \in {"aw_findItem", "aw_create"} /\ req'[r] # req[r]
         /\ WatchlistRows(req[r].user, req[r].arg.movie) # {} )
         => ( /\ req'[r].pc = "done"
              /\ req'[r].res = Res(400, "Movie is already in your watchlist", 0)
              /\ watchlists' = watchlists )]_vars

\* there is at most one watchlist row per (user, movie) pair
C22_AtMostOneRowPerPair ==
  \A x, y \in watchlists :
    (x.user_id = y.user_id /\ x.movie_id = y.movie_id) => x = y

\* the lookup that finds the item ends the request with 400 and writes nothing
C22_FoundItemIs400 ==
  [][\A r \in Slots :
       ( /\ req[r].pc = "aw_findItem" /\ req'[r] # req[r]
         /\ WatchlistRows(req[r].user, req[r].arg.movie) # {} )
         => ( /\ req'[r].pc = "done"
              /\ req'[r].res = Res(400, "Movie is already in your watchlist", 0)
              /\ watchlists' = watchlists )]_vars

\* the second of two racing adds has been answered 500
C22_WitnessRace ==
  \E r, k \in Slots :
    /\ r # k
    /\ req[r].op = "addToWatchlist" /\ req[r].pc = "done" /\ req[r].res = ServerError
    /\ req[k].op = "addToWatchlist" /\ req[k].arg = req[r].arg
    /\ req[k].pc \in {"aw_fetch", "done"}
    /\ WatchlistRows(1, 1) # {}

WriteOps == {"rateMovie", "createReview", "addToWatchlist"}

\* no step of the request in slot r writes a table, and if the step ends the
\* request, it ends with 404 'Movie not found'
NotFoundStep(r) ==
  /\ ratings' = ratings /\ activity' = activity /\ reviews' = reviews
  /\ watchlists' = watchlists
  /\ req'[r].pc = "done" => req'[r].res = Res(404, "Movie not found", 0)

\* C24 as stated: every rateMovie, createReview and addToWatchlist request
\* for an id that is no movie writes nothing and is answered 404 'Movie not
\* found'.
C24_MissingMovieIs404 ==
  [][\A r \in Slots :
       (req'[r] # req[r] /\ req'[r].op \in WriteOps /\ req'[r].arg.movie \notin Movies)
         => NotFoundStep(r)]_vars

\* C24: createReview and addToWatchlist requests, and rateMovie requests
\* whose rating passes the range check, for an id that is no movie write
\* nothing and are answered 404 'Movie not found'.
C24_MissingMovieIs404InRange ==
  [][\A r \in Slots :
       ( /\ req'[r] # req[r] /\ req'[r].op \in WriteOps /\ req'[r].arg.movie \notin Movies
         /\ req'[r].op = "rateMovie" =>
              \/ req'[r].arg.rating = NoRating
              \/ req'[r].arg.rating >= RateMin /\ req'[r].arg.rating <= RateMax )
         => NotFoundStep(r)]_vars

\* a rateMovie request with a rating of 8.5 for an id that is no movie has
\* been answered 404, and no table has a row
C24_Witness ==
  /\ req[1].op = "rateMovie" /\ req[1].pc = "done"
  /\ req[1].arg = [movie |-> NMovies + 1, rating |-> 85]
  /\ req[1].res = Res(404, "Movie not found", 0)
  /\ ratings = {} /\ reviews = {} /\ watchlists = {}

\* createReview and addToWatchlist answered 404 in their turn
C24_WitnessReview ==
  /\ req[1].op = "createReview" /\ req[1].pc = "done"
  /\ req[1].res = Res(404, "Movie not found", 0)

C24_WitnessWatchlist ==
  /\ req[1].op = "addToWatchlist" /\ req[1].pc = "done"
  /\ req[1].res = Res(404, "Movie not found", 0)

\* a rating of 10.1 for an id that is no movie has been answered 400
C24_WitnessOutOfRange ==
  /\ req[1].op = "rateMovie" /\ req[1].pc = "done"
  /\ req[1].arg = [movie |-> NMovies + 1, rating |-> 101]
  /\ req[1].res.status = 400

\* C29: the step that answers a rateMovie request with 200 is the activity
\* insert, it adds one user_activity row of the user and the movie, and no
\* other step of the request adds one; the rating was written by an earlier
\* step; when the activity insert fails the request is answered 500 and the
\* rating row of the pair is still in the table.
C29_RatedThenLogged ==
  [][\A r \in Slots :
       (req[r].op = "rateMovie" /\ req[r].pc # "done" /\ req'[r] # req[r]) =>
         LET u == req[r].user
             m == req[r].arg.movie
         IN /\ (req'[r].pc = "done" /\ req'[r].res.status = 200) =>
                 /\ req[r].pc = "rate_log"
                 /\ activity' = [activity EXCEPT ![<<u, m>>] = @ + 1]
                 /\ ratings' = ratings
                 /\ RatingRows(u, m) # {}
            /\ ~(req'[r].pc = "done" /\ req'[r].res.status = 200) => activity' = activity
            /\ (req[r].pc = "rate_log" /\ req'[r].res.status = 500) =>
                 /\ ratings' = ratings
                 /\ RatingRows(u, m) # {}
            /\ ratings' # ratings => req'[r].pc = "rate_log"]_vars

\* a request that updated a rating and one that created a rating have each
\* been answered 200 with their activity row written
C29_Witness ==
  /\ req[1].op = "rateMovie" /\ req[1].pc = "done" /\ req[1].res.status = 200
  /\ activity[<<1, 1>>] = 2
  /\ \E row \in ratings : row.user_id = 1 /\ row.movie_id = 1

\* the activity insert of a request that created a rating of 8.5 has failed:
\* 500, no activity row, the rating in the table
C29_WitnessFailedLog ==
  /\ req[1].op = "rateMovie" /\ req[1].pc = "done" /\ req[1].res = ServerError
  /\ activity[<<1, 1>>] = 0
  /\ \E row \in ratings : row.user_id = 1 /\ row.movie_id = 1 /\ row.rating = 85

\* C23: updateReview and deleteReview that find a review of another user
\* answer 403 and leave the reviews table as it is; a step that changes or
\* removes a review row is a step of a request of the row's user.
C23_OnlyOwnerWrites ==
  [][\A r \in Slots :
       /\ ( /\ req[r].pc \in {"ur_find", "dr_find"} /\ req'[r] # req[r]
            /\ \E row \in ReviewByPk(req[r].arg.id) : row.user_id # req[r].user )
            => (req'[r].pc = "done" /\ req'[r].res.status = 403 /\ reviews' = reviews)
       /\ (req[r].op \in {"updateReview", "deleteReview"} /\ req'[r] # req[r])
            => \A row \in reviews : row \notin reviews' => row.user_id = req[r].user]_vars

\* user 2 has been refused the update of user 1's review, which still has its
\* content
C23_Witness ==
  \E r \in Slots :
    /\ req[r].op = "updateReview" /\ req[r].pc = "done" /\ req[r].user = 2
    /\ req[r].res = Res(403, "Not authorized to update this review", 0)
    /\ \E row \in ReviewByPk(req[r].arg.id) : row.user_id = 1 /\ row.content = "C"

\* user 2 has been refused the removal of user 1's review, which is in the
\* table
C23_WitnessDelete ==
  \E r \in Slots :
    /\ req[r].op = "deleteReview" /\ req[r].pc = "done" /\ req[r].user = 2
    /\ req[r].res = Res(403, "Not authorized to delete this review", 0)
    /\ \E row \in ReviewByPk(req[r].arg.id) : row.user_id = 1

\* C25: the response of searchMovies to a request without a query string is
\* 400 'Search query is required' and carries nothing read from the tables.
C25_SearchNeedsQuery ==
  (out.op = "searchMovies" /\ out.q = <<>>) =>
    out = [op |-> "searchMovies", q |-> <<>>, status |-> 400,
           message |-> "Search query is required"]

\* a search without a query string has been answered 400 over a catalogue
\* that has ratings
C25_Witness ==
  /\ out.op = "searchMovies" /\ out.q = <<>> /\ out.status = 400
  /\ ratings # {}

(***************************************************************************)
(* Accounts and partial updates                                            *)
(***************************************************************************)
\* C26: the steps of deleteAccount change nothing but the is_active column
\* of the caller's row: the ratings, reviews, watchlists and user_activity
\* tables stay as they are, and no step of any request removes a users row.
C26_OnlyIsActiveChanges ==
  [][/\ DOMAIN users' = DOMAIN users
     /\ \A r \in Slots :
          (req[r].op = "deleteAccount" /\ req'[r] # req[r] /\ req[r].pc # "done") =>
            /\ ratings' = ratings /\ reviews' = reviews /\ watchlists' = watchlists
            /\ activity' = activity
            /\ \A u \in DOMAIN users :
                 /\ u # req'[r].user => users'[u] = users[u]
                 /\ users'[u] = [users[u] EXCEPT !.is_active = users'[u].is_active]
            /\ (req'[r].pc = "done" /\ req'[r].res.status = 200) =>
                 ~users'[req[r].user].is_active]_vars

\* the account of user 1 is deleted; the user's rating, review and watchlist
\* rows are in their tables and the profile is as it was
C26_Witness ==
  /\ req[1].op = "deleteAccount" /\ req[1].pc = "done" /\ req[1].res.status = 200
  /\ users[1] = [is_active |-> FALSE, first_name |-> "F", last_name |-> "L", bio |-> "B"]
  /\ \E row \in ratings : row.user_id = 1 /\ row.rating = 85
  /\ \E row \in reviews : row.user_id = 1 /\ row.content = "C"
  /\ \E row \in watchlists : row.user_id = 1

\* the value of a field after an update that writes exactly what is supplied
Supplied(value, old) == IF value = Undefined THEN old ELSE value

\* the value of a field after an update in which an empty string counts as
\* not supplied
SuppliedNonEmpty(value, old) == IF value \in {Undefined, ""} THEN old ELSE value

\* C27: the update statement of updateReview and of updateProfile leaves
\* the row with every supplied field at its supplied value, the empty string
\* and false included, and every other field as it was.
C27_SuppliedFieldsOverwrite ==
  [][\A r \in Slots :
       /\ (req[r].pc = "ur_update" /\ req'[r] # req[r]) =>
            \A row \in ReviewByPk(req[r].arg.id) :
              [row EXCEPT !.title = Supplied(req[r].arg.title, row.title),
                          !.content = Supplied(req[r].arg.content, row.content),
                          !.is_spoiler = Supplied(req[r].arg.is_spoiler, row.is_spoiler)]
                \in reviews'
       /\ (req[r].pc = "up_update" /\ req'[r] # req[r]) =>
            users'[req[r].user] =
              [users[req[r].user] EXCEPT
                 !.first_name = Supplied(req[r].arg.first_name, @),
                 !.last_name = Supplied(req[r].arg.last_name, @),
                 !.bio = Supplied(req[r].arg.bio, @)]]_vars

\* the same with an empty string counting as a field left out; a supplied
\* is_spoiler of false is written
C27_NonEmptyFieldsOverwrite ==
  [][\A r \in Slots :
       /\ (req[r].pc = "ur_update" /\ req'[r] # req[r]) =>
            \A row \in ReviewByPk(req[r].arg.id) :
              [row EXCEPT !.title = SuppliedNonEmpty(req[r].arg.title, row.title),
                          !.content = SuppliedNonEmpty(req[r].arg.content, row.content),
                          !.is_spoiler = Supplied(req[r].arg.is_spoiler, row.is_spoiler)]
                \in reviews'
       /\ (req[r].pc = "up_update" /\ req'[r] # req[r]) =>
            users'[req[r].user] =
              [users[req[r].user] EXCEPT
                 !.first_name = SuppliedNonEmpty(req[r].arg.first_name, @),
                 !.last_name = SuppliedNonEmpty(req[r].arg.last_name, @),
                 !.bio = SuppliedNonEmpty(req[r].arg.bio, @)]]_vars

\* an updateProfile request with an empty bio has been answered 200 and the
\* bio is the old one
C27_WitnessEmptyBio ==
  /\ req[1].op = "updateProfile" /\ req[1].pc = "done" /\ req[1].res.status = 200
  /\ req[1].arg.bio = "" /\ users[1].bio = "B"

\* an updateReview request with is_spoiler false has turned the flag off
C27_WitnessFalse ==
  /\ req[1].op = "updateReview" /\ req[1].pc = "done" /\ req[1].res.status = 200
  /\ req[1].arg.is_spoiler = "false"
  /\ \E row \in reviews : row.review_id = 1 /\ row.is_spoiler = "false"
  /\ nextReviewId = 2

(***************************************************************************)
(* Rating distributions                                                    *)
(***************************************************************************)
\* the ranges by their lower bound in tenths: '0-1.9', '2-2.9' to '8-8.9',
\* and '9-10'
RangeAt ==
  [lo \in {0} \cup {10 * d : d \in 2..9} |->
     IF lo = 0 THEN <<48, 45, 49, 46, 57>>
     ELSE IF lo = 90 THEN <<57, 45, 49, 48>>
     ELSE <<48 + (lo \div 10), 45, 48 + (lo \div 10), 46, 57>>]

\* the lower bound of the range a rating lies in
LowOf(v) == CHOOSE lo \in DOMAIN RangeAt : lo <= v /\ \A x \in DOMAIN RangeAt : x <= v => x <= lo

\* the rating rows a distribution response is about
InScope ==
  IF out.op = "getRatingDistribution" THEN ratings
  ELSE {row \in ratings : row.user_id = out.q}

RECURSIVE SumCounts(_)
SumCounts(seq) == IF seq = <<>> THEN 0 ELSE Head(seq).count + SumCounts(Tail(seq))

\* every bucket of the response is one of the fixed ranges and counts the
\* rows of the scope that lie in it, no rows are left out, the counts sum to
\* the number of rows, and the buckets come from the highest range down
IsDistribution ==
  LET seq == out.ratings
  IN /\ \A i \in 1..Len(seq) :
          \E lo \in DOMAIN RangeAt :
            /\ seq[i].rating_range = RangeAt[lo]
            /\ seq[i].count = Cardinality({row \in InScope : LowOf(row.rating) = lo})
            /\ seq[i].count > 0
            /\ \A j \in 1..Len(seq) : i < j =>
                 \E below \in DOMAIN RangeAt : below < lo /\ seq[j].rating_range = RangeAt[below]
     /\ \A row \in InScope : \E i \in 1..Len(seq) : seq[i].rating_range = RangeAt[LowOf(row.rating)]
     /\ SumCounts(seq) = Cardinality(InScope)

DistOps == {"getRatingDistribution", "getUserActivityStats"}

\* the labels the CASE gives to the ratings from 0 to 10
LabelsInUse == {RangeOf(v) : v \in RateMin..RateMax}

\* C28 as stated: the ranges are ten, and a distribution response is the
\* count of the rating rows in scope per range, from the highest range down.
C28_TenRanges ==
  out.op \in DistOps => (IsDistribution /\ Cardinality(LabelsInUse) = 10)

\* C28: the ranges are the nine from '0-1.9' to '9-10', every rating row in
\* scope is counted in exactly one of them, the counts sum to the number of
\* rows in scope, and the ranges that have rows are returned from the
\* highest to the lowest.
C28_NineRanges ==
  out.op \in DistOps => (IsDistribution /\ Cardinality(LabelsInUse) = 9)

\* a distribution over three rows in three ranges, and a user's distribution
\* that leaves out another user's row
C28_Witness ==
  /\ out.op = "getRatingDistribution"
  /\ Len(out.ratings) = 3 /\ Cardinality(ratings) = 3
  /\ out.ratings[3].rating_range = RangeAt[0]

C28_WitnessUser ==
  /\ out.op = "getUserActivityStats"
  /\ Len(out.ratings) = 1 /\ out.ratings[1].count = 2
  /\ Cardinality(ratings) = 3

(***************************************************************************)
(* Responses                                                               *)
(***************************************************************************)
StatOps == {"getRecommendations", "getTopRatedMovies", "getDatabaseStats"}

\* C30: a request that is over has been answered once, a request that is
\* not over has not been answered; a recommendations, top-rated or statistics
\* request is answered 200 or 500, and a 500 carries the message and nothing
\* that a query returned.
C30_ExactlyOneResponse ==
  /\ \A r \in Slots :
       /\ req[r].pc = "done" => req[r].sent = 1
       /\ req[r].pc # "done" => req[r].sent = 0
       /\ (req[r].pc = "done" /\ req[r].res.status = 500) => req[r].res = ServerError
  /\ out.op \in StatOps =>
       /\ out.status \in {200, 500}
       /\ out.status = 500 => out = Failed(out.op)

\* the sixth query of getDatabaseStats has failed and the request is answered
\* 500
C30_Witness ==
  /\ req[1].op = "getDatabaseStats" /\ req[1].pc = "done" /\ req[1].sent = 1
  /\ Len(req[1].found) = 5
  /\ req[1].res = ServerError /\ out = Failed("getDatabaseStats")

\* the delegation to getTopRatedMovies has answered 200, once
C30_WitnessDelegated ==
  /\ req[1].op = "getRecommendations" /\ req[1].pc = "done" /\ req[1].sent = 1
  /\ out.op = "getRecommendations" /\ out.status = 200 /\ out.fallback
  /\ ratings # {}

\* a query of getRecommendations has failed for a user who has a rating of 4
\* or more
C30_WitnessRecFailed ==
  /\ req[1].op = "getRecommendations" /\ req[1].pc = "done" /\ req[1].sent = 1
  /\ out = Failed("getRecommendations")
  /\ \E row \in ratings : row.rating >= HighRating

\* the statistics over two ratings
C30_WitnessStats ==
  /\ out.op = "getDatabaseStats" /\ out.status = 200
  /\ out.stats[9] = 2 /\ out.stats[5] = 1999

====
